---- MODULE Spec2Model ----
(***************************************************************************)
(* Model of the poll answering service (src/python/llm_service.py):        *)
(* LLMService.process_poll_questions drives generate_answer over batches   *)
(* of three questions, parses the provider reply, falls back to a random   *)
(* answer on failure, humanizes every answer and keeps cost / request      *)
(* counters.                                                               *)
(*                                                                         *)
(* Conventions.  A Python string is a sequence of one-character strings   *)
(* over the characters up to MaxCodePoint; a value that json.loads can     *)
(* return is a record that names its Python type (PyStr, PyInt, PyFloat,   *)
(* ...).  Confidences are in hundredths (0.3 is 30), costs in              *)
(* thousandths of a dollar (0.002 is 2).  Every random draw of the code    *)
(* is an input of the operator that uses it; the actions take any value    *)
(* of the draw's domain, each draw on its own.                             *)
(***************************************************************************)
EXTENDS Integers, Sequences, FiniteSets, TLC

(***************************************************************************)
(* Bounds of the model.                                                    *)
(***************************************************************************)
MaxQuestions == 2
MaxDegradedQuestions == 4
ConfidenceMargin == 50
MaxEndpointQuestions == 4
MaxCodePoint == 255
MaxExponent == 290

(***************************************************************************)
(* Program constants.                                                      *)
(***************************************************************************)
batch_size == 3
MaxAttempts == 3
OPENAI_COST == 2
ANTHROPIC_COST == 1
FallbackConfidence == 30
TextConfidence == 70
MinConfidence == 20
TruncateAt == 200

(***************************************************************************)
(* Strings.                                                                *)
(***************************************************************************)
\* chr(): the characters by code point.  A string of the model holds the
\* characters of U+0001..U+005F and of U+0061..U+00FF, those a string
\* constant can hold; chr[k] and the operators on characters are defined on
\* these and on no other character.
LowCharacters == <<"", "", "", "", "", "", "", "", "\t", "\n", "",
    "\f", "\r", "", "", "", "", "", "", "", "", "", "", "", "",
    "", "", "", "", "", "", " ", "!", "\"", "#", "$", "%", "&", "'",
    "(", ")", "*", "+", ",", "-", ".", "/", "0", "1", "2", "3", "4", "5",
    "6", "7", "8", "9", ":", ";", "<", "=", ">", "?", "@", "A", "B", "C",
    "D", "E", "F", "G", "H", "I", "J", "K", "L", "M", "N", "O", "P", "Q",
    "R", "S", "T", "U", "V", "W", "X", "Y", "Z", "[", "\\", "]", "^", "_">>
HighCharacters == <<"a", "b", "c", "d", "e", "f", "g", "h", "i", "j", "k",
    "l", "m", "n", "o", "p", "q", "r", "s", "t", "u", "v", "w", "x", "y",
    "z", "{", "|", "}", "~", "", "", "", "", "", "", "", "", "",
    "", "", "", "", "", "", "", "", "", "", "", "", "", "",
    "", "", "", "", "", "", "", "", "", "", " ", "¡", "¢", "£",
    "¤", "¥", "¦", "§", "¨", "©", "ª", "«", "¬", "­", "®", "¯", "°", "±",
    "²", "³", "´", "µ", "¶", "·", "¸", "¹", "º", "»", "¼", "½", "¾", "¿",
    "À", "Á", "Â", "Ã", "Ä", "Å", "Æ", "Ç", "È", "É", "Ê", "Ë", "Ì", "Í",
    "Î", "Ï", "Ð", "Ñ", "Ò", "Ó", "Ô", "Õ", "Ö", "×", "Ø", "Ù", "Ú", "Û",
    "Ü", "Ý", "Þ", "ß", "à", "á", "â", "ã", "ä", "å", "æ", "ç", "è", "é",
    "ê", "ë", "ì", "í", "î", "ï", "ð", "ñ", "ò", "ó", "ô", "õ", "ö", "÷",
    "ø", "ù", "ú", "û", "ü", "ý", "þ", "ÿ">>

CodePoints ==
    { k \in 1..MaxCodePoint :
          \/ k <= Len(LowCharacters)
          \/ k - Len(LowCharacters) - 1 \in 1..Len(HighCharacters) }

chr ==
    [k \in CodePoints |->
        IF k <= Len(LowCharacters)
        THEN LowCharacters[k]
        ELSE HighCharacters[k - Len(LowCharacters) - 1]]

Alphabet == { chr[k] : k \in CodePoints }

\* the cased letters of the alphabet: the capitals and, at the same index,
\* what str.lower() makes of them
Upper == <<"A", "B", "C", "D", "E", "F", "G", "H", "I", "J", "K", "L", "M",
           "N", "O", "P", "Q", "R", "S", "T", "U", "V", "W", "X", "Y", "Z",
           "À", "Á", "Â", "Ã", "Ä", "Å", "Æ", "Ç", "È", "É", "Ê", "Ë", "Ì",
           "Í", "Î", "Ï", "Ð", "Ñ", "Ò", "Ó", "Ô", "Õ", "Ö", "Ø", "Ù", "Ú",
           "Û", "Ü", "Ý", "Þ">>
LowerOf == <<"a", "b", "c", "d", "e", "f", "g", "h", "i", "j", "k", "l",
             "m", "n", "o", "p", "q", "r", "s", "t", "u", "v", "w", "x",
             "y", "z", "à", "á", "â", "ã", "ä", "å", "æ", "ç", "è", "é",
             "ê", "ë", "ì", "í", "î", "ï", "ð", "ñ", "ò", "ó", "ô", "õ",
             "ö", "ø", "ù", "ú", "û", "ü", "ý", "þ">>

\* what str.lower() makes of each character of the alphabet
Lowered ==
    [c \in Alphabet |->
        IF \E k \in 1..Len(Upper) : Upper[k] = c
        THEN LowerOf[CHOOSE k \in 1..Len(Upper) : Upper[k] = c]
        ELSE c]

\* str.lower() on one character
LowerChar(c) == Lowered[c]

\* str.lower()
Lower(s) == [k \in 1..Len(s) |-> LowerChar(s[k])]

\* the Python operator `sub in s` on strings
Contains(s, sub) ==
    \E t \in {s} : \E w \in {sub} :
        \E k \in 0..(Len(t) - Len(w)) :
            \A m \in 1..Len(w) : t[k + m] = w[m]

\* the characters of the alphabet that str.strip() removes: U+0009..U+000D,
\* U+001C..U+0020, U+0085 and U+00A0
Whitespace ==
    { chr[k] : k \in ((9..13) \cup (28..32) \cup {133, 160}) \cap CodePoints }

\* str.isspace() on one character
Spaces == [c \in Alphabet |-> c \in Whitespace]

IsSpace(c) == Spaces[c]

\* str.strip()
Strip(s) ==
    IF \A k \in 1..Len(s) : IsSpace(s[k])
    THEN <<>>
    ELSE LET first == CHOOSE k \in 1..Len(s) :
                          /\ ~IsSpace(s[k])
                          /\ \A m \in 1..(k - 1) : IsSpace(s[m])
             last == CHOOSE k \in 1..Len(s) :
                          /\ ~IsSpace(s[k])
                          /\ \A m \in (k + 1)..Len(s) : IsSpace(s[m])
         IN SubSeq(s, first, last)

Digits == {"0", "1", "2", "3", "4", "5", "6", "7", "8", "9"}

\* str(n) for the one-digit ratings 3..7 that random.randint(3, 7) yields
DigitStr(n) == << <<"0", "1", "2", "3", "4", "5", "6", "7", "8", "9">>[n + 1] >>

(***************************************************************************)
(* Python values.  A value is a record that holds the name of its type     *)
(* and, in the field of that name, what it holds: a str its characters, a  *)
(* list its items, a dict the function from its keys (strings) to their    *)
(* values.  A float is the decimal m * 10^e of its literal, m without      *)
(* trailing zeros: two literals are the same float when they are the same  *)
(* decimal, which holds for the literals of up to nine digits with an      *)
(* exponent within MaxExponent that the model reads; on other literals     *)
(* PyFloat is not defined.                                                 *)
(***************************************************************************)
PyStr(s) == [type |-> "str", str |-> s]
PyInt(n) == [type |-> "int", int |-> n]
PyBool(b) == [type |-> "bool", bool |-> b]
PyNone == [type |-> "NoneType"]
PyList(items) == [type |-> "list", list |-> items]
PyDict(d) == [type |-> "dict", dict |-> d]

RECURSIVE Decimal(_, _)
Decimal(m, e) ==
    IF m = 0 THEN [m |-> 0, e |-> 0]
    ELSE IF m % 10 = 0 THEN Decimal(m \div 10, e + 1)
    ELSE [m |-> m, e |-> e]

PyFloat(m, e) ==
    CASE (0 - MaxExponent) <= e /\ e <= MaxExponent ->
             [type |-> "float", float |-> Decimal(m, e)]

\* float('nan'), and float('inf') with its sign
PyNaN == [type |-> "float", float |-> [nan |-> TRUE]]
PyInf(sign) == [type |-> "float", float |-> [inf |-> sign]]

RECURSIVE Pow10(_)
Pow10(n) == IF n = 0 THEN 1 ELSE 10 * Pow10(n - 1)

\* a float as a confidence of the model, in hundredths; defined on the
\* floats that are a whole number of hundredths
Hundredths(d) ==
    CASE "m" \in DOMAIN d /\ d.e >= -2 -> d.m * Pow10(d.e + 2)

\* dict.get(key, default) on a dict of Python values
DictGet(data, key, default) ==
    IF key \in DOMAIN data.dict THEN data.dict[key] ELSE default

\* the dict of a sequence of <<key, value>> pairs: the last pair of a key
\* gives its value
DictOf(pairs) ==
    PyDict([key \in { pairs[n][1] : n \in 1..Len(pairs) } |->
               pairs[CHOOSE n \in 1..Len(pairs) :
                         /\ pairs[n][1] = key
                         /\ \A m \in (n + 1)..Len(pairs) : pairs[m][1] # key][2]])

(***************************************************************************)
(* json.loads and float(), as CPython implements them (json.decoder,       *)
(* json.scanner, float_new).  A scan yields ok = FALSE where the code      *)
(* raises JSONDecodeError, otherwise the value read and the position       *)
(* after it.                                                               *)
(***************************************************************************)
\* s[p:p + 1]: the character at position p, "" outside the string
At(s, p) == IF p \in 1..Len(s) THEN s[p] ELSE ""

\* s[p:p + len(w)] == w
StartsWith(s, p, w) ==
    /\ p + Len(w) - 1 <= Len(s)
    /\ \A k \in 1..Len(w) : s[p + k - 1] = w[k]

\* the first position from p on whose character is not in `set`
RECURSIVE Span(_, _, _)
Span(s, p, set) == IF At(s, p) \in set THEN Span(s, p + 1, set) ELSE p

\* the number a sequence of decimal digits writes
RECURSIVE NatOf(_)
NatOf(ds) ==
    IF ds = <<>> THEN 0
    ELSE 10 * NatOf(SubSeq(ds, 1, Len(ds) - 1))
             + (CHOOSE n \in 0..9 : chr[48 + n] = ds[Len(ds)])

Scanned(val, end) == [ok |-> TRUE, val |-> val, end |-> end]
NoScan == [ok |-> FALSE]

\* WHITESPACE of json.decoder
JsonSpace == {" ", "\t", "\n", "\r"}

\* the characters a JSON string cannot hold unescaped: U+0001..U+001F
ControlChars == { chr[k] : k \in 1..31 }

\* BACKSLASH of json.decoder: what the one-letter escapes stand for
Backslash ==
    [c \in {"\"", "\\", "/", "b", "f", "n", "r", "t"} |->
        CASE c = "b" -> chr[8]
          [] c = "f" -> "\f"
          [] c = "n" -> "\n"
          [] c = "r" -> "\r"
          [] c = "t" -> "\t"
          [] OTHER -> c]

HexDigits == <<"0", "1", "2", "3", "4", "5", "6", "7", "8", "9",
               "a", "b", "c", "d", "e", "f", "A", "B", "C", "D", "E", "F">>

IsHex(c) == \E k \in 1..Len(HexDigits) : HexDigits[k] = c

HexValue(c) ==
    LET k == CHOOSE k \in 1..Len(HexDigits) : HexDigits[k] = c
    IN IF k <= 16 THEN k - 1 ELSE k - 7

\* json.decoder.scanstring from position p, behind the opening quote; acc
\* holds the characters read so far.  The character of a \uXXXX escape is
\* chr of its number.
RECURSIVE scanstring(_, _, _)
scanstring(s, p, acc) ==
    LET c == At(s, p)
        esc == At(s, p + 1)
    IN
    IF c = "" THEN NoScan
    ELSE IF c = "\"" THEN Scanned(PyStr(acc), p + 1)
    ELSE IF c \in ControlChars THEN NoScan
    ELSE IF c # "\\" THEN scanstring(s, p + 1, Append(acc, c))
    ELSE IF esc \in DOMAIN Backslash
    THEN scanstring(s, p + 2, Append(acc, Backslash[esc]))
    ELSE IF esc = "u" /\ \A k \in 2..5 : IsHex(At(s, p + k))
    THEN scanstring(s, p + 6,
                    Append(acc, chr[4096 * HexValue(s[p + 2])
                                        + 256 * HexValue(s[p + 3])
                                        + 16 * HexValue(s[p + 4])
                                        + HexValue(s[p + 5])]))
    ELSE NoScan

\* the fraction of a number literal, read at the position behind its whole
\* part: a point and the digits after it, where it ends, and whether there
\* is one.  The scanner of JSON takes the point for a fraction only with a
\* digit behind it (digit), float() takes it without.
Fraction(s, point, digit) ==
    IF At(s, point) = "." /\ (digit => At(s, point + 1) \in Digits)
    THEN [has |-> TRUE, end |-> Span(s, point + 1, Digits),
          digits |-> SubSeq(s, point + 1, Span(s, point + 1, Digits) - 1)]
    ELSE [has |-> FALSE, end |-> point, digits |-> <<>>]

\* the exponent of a number literal, read at the position e behind its
\* fraction: an e or E, a sign and at least one digit; its value, where it
\* ends, and whether there is one
Exponent(s, e) ==
    LET digits == IF At(s, e + 1) \in {"+", "-"} THEN e + 2 ELSE e + 1
    IN IF At(s, e) \in {"e", "E"} /\ At(s, digits) \in Digits
       THEN [has |-> TRUE, end |-> Span(s, digits, Digits),
             val |-> (IF At(s, e + 1) = "-" THEN -1 ELSE 1)
                         * NatOf(SubSeq(s, digits, Span(s, digits, Digits) - 1))]
       ELSE [has |-> FALSE, end |-> e, val |-> 0]

\* _match_number of the scanner: -?(0|[1-9][0-9]*)(\.[0-9]+)?([eE][-+]?[0-9]+)?,
\* an int without fraction and exponent, a float with either
match_number(s, p) ==
    LET first == IF At(s, p) = "-" THEN p + 1 ELSE p
        point == IF At(s, first) = "0" THEN first + 1 ELSE Span(s, first, Digits)
        frac == Fraction(s, point, TRUE)
        exp == Exponent(s, frac.end)
        sign == IF At(s, p) = "-" THEN -1 ELSE 1
    IN
    IF point = first THEN NoScan
    ELSE IF frac.has \/ exp.has
    THEN Scanned(PyFloat(sign * NatOf(SubSeq(s, first, point - 1) \o frac.digits),
                         exp.val - Len(frac.digits)),
                 exp.end)
    ELSE Scanned(PyInt(sign * NatOf(SubSeq(s, first, point - 1))), exp.end)

\* the constants of the scanner
Literals ==
    << [text |-> <<"n", "u", "l", "l">>, val |-> PyNone],
       [text |-> <<"t", "r", "u", "e">>, val |-> PyBool(TRUE)],
       [text |-> <<"f", "a", "l", "s", "e">>, val |-> PyBool(FALSE)],
       [text |-> <<"N", "a", "N">>, val |-> PyNaN],
       [text |-> <<"I", "n", "f", "i", "n", "i", "t", "y">>, val |-> PyInf(1)],
       [text |-> <<"-", "I", "n", "f", "i", "n", "i", "t", "y">>,
        val |-> PyInf(-1)] >>

\* scan_once of json.scanner reads the value at position p; JSONObject and
\* JSONArray of json.decoder read the members of an object and the items of
\* an array from position p on, behind the '{' or '[' or a comma and the
\* whitespace after it, `read` being what was read before
RECURSIVE scan_once(_, _), JSONObject(_, _, _), JSONArray(_, _, _)
scan_once(s, p) ==
    LET c == At(s, p)
    IN
    IF c = "\"" THEN scanstring(s, p + 1, <<>>)
    ELSE IF c = "{" THEN JSONObject(s, Span(s, p + 1, JsonSpace), <<>>)
    ELSE IF c = "[" THEN JSONArray(s, Span(s, p + 1, JsonSpace), <<>>)
    ELSE IF \E k \in 1..Len(Literals) : StartsWith(s, p, Literals[k].text)
    THEN LET k == CHOOSE k \in 1..Len(Literals) :
                      StartsWith(s, p, Literals[k].text)
         IN Scanned(Literals[k].val, p + Len(Literals[k].text))
    ELSE match_number(s, p)

JSONObject(s, p, read) ==
    LET key == scanstring(s, p + 1, <<>>)
        colon == Span(s, key.end, JsonSpace)
        member == scan_once(s, Span(s, colon + 1, JsonSpace))
        after == Span(s, member.end, JsonSpace)
        pairs == Append(read, <<key.val.str, member.val>>)
    IN
    IF read = <<>> /\ At(s, p) = "}" THEN Scanned(DictOf(<<>>), p + 1)
    ELSE IF At(s, p) # "\"" THEN NoScan
    ELSE IF ~key.ok THEN NoScan
    ELSE IF At(s, colon) # ":" THEN NoScan
    ELSE IF ~member.ok THEN NoScan
    ELSE IF At(s, after) = "}" THEN Scanned(DictOf(pairs), after + 1)
    ELSE IF At(s, after) = ","
    THEN JSONObject(s, Span(s, after + 1, JsonSpace), pairs)
    ELSE NoScan

JSONArray(s, p, read) ==
    LET item == scan_once(s, p)
        after == Span(s, item.end, JsonSpace)
        items == Append(read, item.val)
    IN
    IF read = <<>> /\ At(s, p) = "]" THEN Scanned(PyList(<<>>), p + 1)
    ELSE IF ~item.ok THEN NoScan
    ELSE IF At(s, after) = "]" THEN Scanned(PyList(items), after + 1)
    ELSE IF At(s, after) = ","
    THEN JSONArray(s, Span(s, after + 1, JsonSpace), items)
    ELSE NoScan

\* JSONDecoder.decode on what raw_decode scanned: the value, when nothing
\* but whitespace follows it
decode(s, scan) ==
    IF scan.ok /\ Span(s, scan.end, JsonSpace) = Len(s) + 1
    THEN [exc |-> FALSE, data |-> scan.val]
    ELSE [exc |-> TRUE]

\* json.loads: the value of the text, which whitespace only may surround;
\* exc where it raises JSONDecodeError
json_loads(s) == decode(s, scan_once(s, Span(s, 1, JsonSpace)))

NotUnderscore(c) == c # "_"

\* the whitespace float() strips from a string: that of str.strip() without
\* U+001C..U+001F
FloatSpace == Whitespace \ { chr[k] : k \in 28..31 }

\* the number a float literal without underscores writes: a sign and digits
\* with a point and an exponent, at least one digit before or after the
\* point, and nothing behind
string_to_double(u) ==
    LET first == IF At(u, 1) \in {"+", "-"} THEN 2 ELSE 1
        frac == Fraction(u, Span(u, first, Digits), FALSE)
        exp == Exponent(u, frac.end)
        whole == SubSeq(u, first, Span(u, first, Digits) - 1)
    IN IF (whole # <<>> \/ frac.digits # <<>>) /\ exp.end = Len(u) + 1
       THEN [exc |-> FALSE,
             val |-> Hundredths(
                         PyFloat((IF At(u, 1) = "-" THEN -1 ELSE 1)
                                     * NatOf(whole \o frac.digits),
                                 exp.val - Len(frac.digits)).float)]
       ELSE [exc |-> TRUE, val |-> 0]

\* float() of the stripped string t: the text is a sign and inf, infinity or
\* nan in any case, or a float literal in which an underscore may stand
\* between two digits
float_from_string_inner(t) ==
    LET word == Lower(SubSeq(t, IF At(t, 1) \in {"+", "-"} THEN 2 ELSE 1, Len(t)))
    IN
    IF word \in { <<"i", "n", "f">>, <<"i", "n", "f", "i", "n", "i", "t", "y">> }
    THEN [exc |-> FALSE,
          val |-> Hundredths(PyInf(IF At(t, 1) = "-" THEN -1 ELSE 1).float)]
    ELSE IF word = <<"n", "a", "n">>
    THEN [exc |-> FALSE, val |-> Hundredths(PyNaN.float)]
    ELSE IF \A k \in 1..Len(t) :
                t[k] = "_" =>
                    At(t, k - 1) \in Digits /\ At(t, k + 1) \in Digits
    THEN string_to_double(SelectSeq(t, NotUnderscore))
    ELSE [exc |-> TRUE, val |-> 0]

\* float() of a string: the whitespace around it is stripped.  exc where it
\* raises ValueError, otherwise the value in hundredths.
float_from_string(s) ==
    float_from_string_inner(
        SubSeq(s, Span(s, 1, FloatSpace),
               IF \A k \in 1..Len(s) : s[k] \in FloatSpace THEN 0
               ELSE CHOOSE k \in 1..Len(s) :
                        /\ s[k] \notin FloatSpace
                        /\ \A m \in (k + 1)..Len(s) : s[m] \in FloatSpace))

\* float(x), in hundredths: exc where it raises ValueError or TypeError
float(x) ==
    IF x.type = "int" THEN [exc |-> FALSE, val |-> 100 * x.int]
    ELSE IF x.type = "float" THEN [exc |-> FALSE, val |-> Hundredths(x.float)]
    ELSE IF x.type = "bool" THEN [exc |-> FALSE, val |-> IF x.bool THEN 100 ELSE 0]
    ELSE IF x.type = "str" THEN float_from_string(x.str)
    ELSE [exc |-> TRUE, val |-> 0]

(***************************************************************************)
(* Question and Answer (the dataclasses).                                  *)
(***************************************************************************)
\* An element of Question.options.  dict = FALSE is an element that is not a
\* dictionary (the endpoint copies q_data['options'] unchecked); keys are the
\* keys the dictionary holds.
Option(value, label) ==
    [dict |-> TRUE, keys |-> {"value", "label"}, value |-> value, label |-> label]
NotADict(s) ==
    [dict |-> FALSE, keys |-> {}, value |-> s, label |-> s]

\* dict.get(key, default)
Get(option, key, default) ==
    IF key \in option.keys
    THEN (IF key = "value" THEN option.value ELSE option.label)
    ELSE default

Question(id, type, options) == [id |-> id, type |-> type, options |-> options]

\* Answer.value is the Python value `py`, wrapped by the humanizer in an
\* uncertainty pattern (prefixed) and a hedging word (hedged); reasoning is
\* a Python value, confidence a number of hundredths; humanized counts the
\* calls of make_answer_human_like on the object.
Answer(question_id, value, confidence, reasoning) ==
    [question_id |-> question_id,
     value |-> [py |-> value, prefixed |-> FALSE, hedged |-> FALSE],
     confidence |-> confidence,
     reasoning |-> reasoning,
     humanized |-> 0]

NoAnswer == Answer(-1, PyStr(<<>>), 0, PyStr(<<>>))

FallbackReasoning ==
    PyStr(<<"F", "a", "l", "l", "b", "a", "c", "k", " ", "a", "n", "s", "w",
          "e", "r", " ", "d", "u", "e", " ", "t", "o", " ", "A", "P", "I",
          " ", "f", "a", "i", "l", "u", "r", "e">>)
TextReasoning ==
    PyStr(<<"P", "a", "r", "s", "e", "d", " ", "f", "r", "o", "m", " ", "t",
          "e", "x", "t", " ", "r", "e", "s", "p", "o", "n", "s", "e">>)

\* What a call yields: an Answer, or an exception that propagates.
Returned(a) == [exc |-> FALSE, ans |-> a]
Raised == [exc |-> TRUE, ans |-> NoAnswer]

YesNo == << <<"y", "e", "s">>, <<"n", "o">> >>

FallbackPhrases ==
    << <<"I", "'", "m", " ", "n", "o", "t", " ", "s", "u", "r", "e", " ", "a",
         "b", "o", "u", "t", " ", "t", "h", "i", "s">>,
       <<"I", " ", "d", "o", "n", "'", "t", " ", "h", "a", "v", "e", " ", "a",
         " ", "s", "t", "r", "o", "n", "g", " ", "o", "p", "i", "n", "i", "o",
         "n">>,
       <<"I", "'", "d", " ", "n", "e", "e", "d", " ", "t", "o", " ", "t", "h",
         "i", "n", "k", " ", "a", "b", "o", "u", "t", " ", "t", "h", "i", "s",
         " ", "m", "o", "r", "e">>,
       <<"N", "o", "t", " ", "r", "e", "a", "l", "l", "y", " ", "s", "u", "r",
         "e">> >>

NotSurePhrase ==
    <<"I", "'", "m", " ", "n", "o", "t", " ", "s", "u", "r", "e", " ", "a", "b",
      "o", "u", "t", " ", "t", "h", "i", "s", " ", "o", "n", "e", ".">>

IsChoice(q) == q.type \in {"single-choice", "multiple-choice"} /\ q.options # <<>>

(***************************************************************************)
(* Random draws.  RandomDomain(q) is the set of indices that the           *)
(* random.choice / random.randint call taken for question q can yield.     *)
(***************************************************************************)
RandomDomain(q) ==
    IF q.type = "yes-no" THEN 1..2
    ELSE IF IsChoice(q) THEN 1..Len(q.options)
    ELSE IF q.type = "rating" THEN 3..7
    ELSE 1..Len(FallbackPhrases)

\* random.choice(question.options).get('value', question.options[0].get('label', ''))
\* raises AttributeError when the drawn option, or the first option whose
\* label is the default argument, is not a dictionary.
RandomOption(q, r) ==
    IF ~q.options[r].dict \/ ~q.options[1].dict
    THEN [exc |-> TRUE, body |-> <<>>]
    ELSE [exc |-> FALSE,
          body |-> Get(q.options[r], "value", Get(q.options[1], "label", <<>>))]

\* LLMService._generate_fallback_answer
_generate_fallback_answer(q, r) ==
    IF q.type = "yes-no"
    THEN Returned(Answer(q.id, PyStr(YesNo[r]), FallbackConfidence,
                         FallbackReasoning))
    ELSE IF IsChoice(q)
    THEN (IF RandomOption(q, r).exc
          THEN Raised
          ELSE Returned(Answer(q.id, PyStr(RandomOption(q, r).body),
                               FallbackConfidence, FallbackReasoning)))
    ELSE IF q.type = "rating"
    THEN Returned(Answer(q.id, PyStr(DigitStr(r)), FallbackConfidence,
                         FallbackReasoning))
    ELSE Returned(Answer(q.id, PyStr(FallbackPhrases[r]), FallbackConfidence,
                         FallbackReasoning))

(***************************************************************************)
(* Free-text extraction.                                                   *)
(***************************************************************************)
Affirmative == { <<"y", "e", "s">>, <<"t", "r", "u", "e">>,
                 <<"a", "g", "r", "e", "e">>,
                 <<"c", "o", "r", "r", "e", "c", "t">> }
Negative == { <<"n", "o">>, <<"f", "a", "l", "s", "e">>,
              <<"d", "i", "s", "a", "g", "r", "e", "e">>,
              <<"i", "n", "c", "o", "r", "r", "e", "c", "t">> }

\* the characters of the alphabet that \w of the re module (which is
\* Unicode-aware) matches: the digits, the cased letters, and the
\* underscore, the ordinals, superscripts, fractions, micro sign and the two
\* small letters that have no capital in the alphabet
WordChars ==
    Digits \cup { Upper[k] : k \in 1..Len(Upper) }
        \cup { LowerOf[k] : k \in 1..Len(LowerOf) }
        \cup { "_", "ª", "²", "³", "µ", "¹", "º", "¼", "½", "¾", "ß", "ÿ" }

Words == [c \in Alphabet |-> c \in WordChars]

IsWordChar(c) == Words[c]

\* \b between positions p and p + 1 of s (p = 0 is the start, Len(s) the end)
Boundary(s, p) ==
    LET before == p >= 1 /\ IsWordChar(s[p])
        after == p < Len(s) /\ IsWordChar(s[p + 1])
    IN before # after

\* a match of \b([1-9]|10)\b that starts at position p: its length, or 0
RatingMatch(s, p) ==
    IF ~Boundary(s, p - 1) THEN 0
    ELSE IF s[p] \in (Digits \ {"0"}) /\ Boundary(s, p) THEN 1
    ELSE IF /\ p < Len(s)
            /\ s[p] = "1"
            /\ s[p + 1] = "0"
            /\ Boundary(s, p + 1) THEN 2
    ELSE 0

\* the option the loop of lines 234-237 stops at: the first one that is not a
\* dictionary (option.get raises) or whose text occurs in the response; 0
\* when the loop runs to its end
OptionText(option) == Lower(Get(option, "label", Get(option, "value", <<>>)))

StopsAt(q, text, k) ==
    \/ ~q.options[k].dict
    \/ Contains(Lower(text), OptionText(q.options[k]))

FirstStop(q, text) ==
    IF \E k \in 1..Len(q.options) : StopsAt(q, text, k)
    THEN CHOOSE k \in 1..Len(q.options) :
             /\ StopsAt(q, text, k)
             /\ \A m \in 1..(k - 1) : ~StopsAt(q, text, m)
    ELSE 0

\* LLMService._extract_answer_from_text; r is the random draw
_extract_answer_from_text(q, response, r) ==
    LET text == Strip(response)
        stop == FirstStop(q, text)
    IN
    IF q.type = "yes-no"
    THEN (IF \E w \in Affirmative : Contains(Lower(text), w)
          THEN [exc |-> FALSE, body |-> YesNo[1]]
          ELSE IF \E w \in Negative : Contains(Lower(text), w)
          THEN [exc |-> FALSE, body |-> YesNo[2]]
          ELSE [exc |-> FALSE, body |-> YesNo[r]])
    ELSE IF IsChoice(q)
    THEN (IF stop = 0
          THEN RandomOption(q, r)
          ELSE IF ~q.options[stop].dict
          THEN [exc |-> TRUE, body |-> <<>>]
          ELSE [exc |-> FALSE,
                body |-> Get(q.options[stop], "value",
                             Get(q.options[stop], "label", <<>>))])
    ELSE IF q.type = "rating"
    THEN (IF \E p \in 1..Len(text) : RatingMatch(text, p) > 0
          THEN LET p == CHOOSE p \in 1..Len(text) :
                            /\ RatingMatch(text, p) > 0
                            /\ \A m \in 1..(p - 1) : RatingMatch(text, m) = 0
               IN [exc |-> FALSE,
                   body |-> SubSeq(text, p, p + RatingMatch(text, p) - 1)]
          ELSE [exc |-> FALSE, body |-> DigitStr(r)])
    ELSE (IF Len(text) > TruncateAt
          THEN [exc |-> FALSE,
                body |-> SubSeq(text, 1, TruncateAt) \o <<".", ".", ".">>]
          ELSE IF text = <<>>
          THEN [exc |-> FALSE, body |-> NotSurePhrase]
          ELSE [exc |-> FALSE, body |-> text])

(***************************************************************************)
(* The provider's reply.  A reply is the text of the completion together   *)
(* with what json.loads makes of the {...} span found in it.               *)
(***************************************************************************)
Content(text, loads) == [text |-> text, loads |-> loads]

\* re.search(r'\{.*\}', response, re.DOTALL) finds a span: a '{' with a '}' after it
HasJsonSpan(text) ==
    \E a \in 1..Len(text) : \E b \in (a + 1)..Len(text) :
        text[a] = "{" /\ text[b] = "}"

\* json_match.group(): the match of \{.*\} is greedy and spans newlines, it
\* runs from the first '{' to the last '}'
JsonSpan(text) ==
    SubSeq(text,
           CHOOSE a \in 1..Len(text) :
               text[a] = "{" /\ \A m \in 1..(a - 1) : text[m] # "{",
           CHOOSE b \in 1..Len(text) :
               text[b] = "}" /\ \A m \in (b + 1)..Len(text) : text[m] # "}")

\* a completion: its text, and what json.loads makes of its {...} span;
\* without a span json.loads is not called and loads is not read
ContentOf(text) ==
    Content(text,
            IF HasJsonSpan(text) THEN json_loads(JsonSpan(text))
            ELSE [exc |-> TRUE])

\* the keys _parse_llm_response reads
Keys ==
    [answer |-> <<"a", "n", "s", "w", "e", "r">>,
     confidence |-> <<"c", "o", "n", "f", "i", "d", "e", "n", "c", "e">>,
     reasoning |-> <<"r", "e", "a", "s", "o", "n", "i", "n", "g">>]

\* the default of line 202, the float 0.7
DefaultConfidence == PyFloat(TextConfidence, -2)

\* the confidence of the object is dropped for the default
ParseWithDefaultConfidence(q, content, rx, rf) ==
    IF HasJsonSpan(content.text)
    THEN (IF content.loads.exc
          THEN _generate_fallback_answer(q, rf)
          ELSE Returned(Answer(q.id,
                               DictGet(content.loads.data, Keys.answer,
                                       PyStr(<<>>)),
                               TextConfidence,
                               DictGet(content.loads.data, Keys.reasoning,
                                       PyStr(<<>>)))))
    ELSE (IF _extract_answer_from_text(q, content.text, rx).exc
          THEN _generate_fallback_answer(q, rf)
          ELSE Returned(Answer(q.id,
                               PyStr(_extract_answer_from_text(q, content.text,
                                                               rx).body),
                               TextConfidence, TextReasoning)))

\* LLMService._parse_llm_response on a response whose {...} span json.loads
\* has read (content); rx is the draw of the extraction, rf the draw of the
\* fallback taken in the except branch
_parse_llm_response(q, content, rx, rf) ==
    LET data == content.loads.data
        confidence == float(DictGet(data, Keys.confidence, DefaultConfidence))
        extracted == _extract_answer_from_text(q, content.text, rx)
    IN
    IF /\ Contains(content.text, <<"{">>)
       /\ Contains(content.text, <<"}">>)
       /\ HasJsonSpan(content.text)
    THEN (IF content.loads.exc
          THEN _generate_fallback_answer(q, rf)
          ELSE IF confidence.exc
          THEN _generate_fallback_answer(q, rf)
          ELSE Returned(Answer(q.id,
                               DictGet(data, Keys.answer, PyStr(<<>>)),
                               confidence.val,
                               DictGet(data, Keys.reasoning, PyStr(<<>>)))))
    ELSE (IF extracted.exc
          THEN _generate_fallback_answer(q, rf)
          ELSE Returned(Answer(q.id, PyStr(extracted.body), TextConfidence,
                               TextReasoning)))

(***************************************************************************)
(* Provider calls.  A response is what the client call does: it raises     *)
(* (network error, timeout, non-2xx), it returns an envelope whose content *)
(* cannot be read (malformed), or it returns a completion (ok).            *)
(***************************************************************************)
Response(call, content) == [call |-> call, content |-> content]

\* LLMService._build_prompt: the text of the prompt goes to the provider and
\* is not modelled; option.get of line 182 raises AttributeError on an
\* option that is not a dictionary
_build_prompt(q) ==
    [exc |-> \E k \in 1..Len(q.options) : ~q.options[k].dict]

\* lines 119-123 / 144-148: the cost is added, then the completion is parsed;
\* the outcome of the parse (exc, ans) with the cost of the call
Charged(parsed, cost) == parsed @@ [dcost |-> cost]

\* LLMService._generate_openai_answer / _generate_anthropic_answer: the two
\* differ in the client called and in the cost added.  dcost is what the
\* call adds to self.total_cost.
ProviderAnswer(q, cost, resp, rx, rf) ==
    IF _build_prompt(q).exc
    THEN [exc |-> TRUE, ans |-> NoAnswer, dcost |-> 0]
    ELSE IF resp.call = "raise"
    THEN [exc |-> TRUE, ans |-> NoAnswer, dcost |-> 0]
    ELSE IF resp.call = "malformed"
    THEN [exc |-> TRUE, ans |-> NoAnswer, dcost |-> cost]
    ELSE Charged(_parse_llm_response(q, resp.content, rx, rf), cost)

_generate_openai_answer(q, resp, rx, rf) ==
    ProviderAnswer(q, OPENAI_COST, resp, rx, rf)

_generate_anthropic_answer(q, resp, rx, rf) ==
    ProviderAnswer(q, ANTHROPIC_COST, resp, rx, rf)

\* the secondary client is preferred
SelectSecondaryFirst(openai, anthropic) ==
    IF anthropic THEN "anthropic" ELSE IF openai THEN "openai" ELSE "none"

\* the primary client is called whether or not it was set up
SelectUnconfigured(openai, anthropic) ==
    IF anthropic /\ ~openai THEN "anthropic" ELSE "openai"

\* the client generate_answer calls (lines 88-93)
SelectProvider(openai, anthropic) ==
    IF openai THEN "openai" ELSE IF anthropic THEN "anthropic" ELSE "none"

\* lines 88-93: the call of the selected client, or the exception of line 93
CallProvider(q, provider, resp, rx, rf) ==
    IF provider = "openai"
    THEN _generate_openai_answer(q, resp, rx, rf)
    ELSE IF provider = "anthropic"
    THEN _generate_anthropic_answer(q, resp, rx, rf)
    ELSE [exc |-> TRUE, ans |-> NoAnswer, dcost |-> 0]

\* the increment of line 95
CountRequest(count) == count + 1

\* the fallback answer replaces the response of the provider too
AbsorbAlways(r, fallback, count, provider) ==
    [exc |-> fallback.exc, ans |-> fallback.ans, dcost |-> r.dcost,
     count |-> IF r.exc THEN count ELSE CountRequest(count),
     provider |-> provider]

\* a failed call is counted as a request too
AbsorbCounting(r, fallback, count, provider) ==
    IF ~r.exc
    THEN [exc |-> FALSE, ans |-> r.ans, dcost |-> r.dcost,
          count |-> CountRequest(count), provider |-> provider]
    ELSE [exc |-> fallback.exc, ans |-> fallback.ans, dcost |-> r.dcost,
          count |-> CountRequest(count), provider |-> provider]

\* lines 95-101: a response is counted and returned; on an exception the
\* fallback answer is returned instead (exc: the fallback raised as well, and
\* the exception leaves generate_answer).  The response r (exc = FALSE,
\* ans, dcost) is returned as it is, with the counter and the provider.
Absorb(r, fallback, count, provider) ==
    IF ~r.exc
    THEN r @@ [count |-> CountRequest(count), provider |-> provider]
    ELSE [exc |-> fallback.exc, ans |-> fallback.ans, dcost |-> r.dcost,
          count |-> count, provider |-> provider]

\* One run of the body of LLMService.generate_answer.  rf2 is the draw of the
\* fallback of line 101, count the value of self.request_count.
generate_answer(q, openai, anthropic, resp, rx, rf, rf2, count) ==
    Absorb(CallProvider(q, SelectProvider(openai, anthropic), resp, rx, rf),
           _generate_fallback_answer(q, rf2),
           count,
           SelectProvider(openai, anthropic))

(***************************************************************************)
(* The humanizer.                                                          *)
(***************************************************************************)
\* the reduced confidence is kept without the floor of 0.2
HumanizeWithoutFloor(answer, q, u1, u2, reduce) ==
    [answer EXCEPT !.confidence = answer.confidence - reduce,
                   !.humanized = answer.humanized + 1]

\* the draw is added to the confidence
HumanizeRaising(answer, q, u1, u2, reduce) ==
    [answer EXCEPT
        !.confidence = IF answer.confidence + reduce > MinConfidence
                       THEN answer.confidence + reduce ELSE MinConfidence,
        !.humanized = answer.humanized + 1]

\* the floor is taken as a cap: min(0.2, .) for max(0.2, .)
HumanizeCapped(answer, q, u1, u2, reduce) ==
    [answer EXCEPT
        !.confidence = IF answer.confidence - reduce < MinConfidence
                       THEN answer.confidence - reduce ELSE MinConfidence,
        !.humanized = answer.humanized + 1]

\* LLMService.make_answer_human_like; u1 and u2 are the outcomes of the two
\* random.random() tests, reduce the draw of random.uniform(0.1, 0.3)
make_answer_human_like(answer, q, u1, u2, reduce) ==
    LET v0 == answer.value
        text == v0.py.type = "str" /\ q.type = "text"
        v1 == IF text /\ u1
              THEN [v0 EXCEPT !.py = PyStr(Lower(v0.py.str)), !.prefixed = TRUE]
              ELSE v0
        v2 == IF text /\ u2
              THEN [v1 EXCEPT !.hedged = TRUE]
              ELSE v1
        lowered == answer.confidence - reduce
    IN [answer EXCEPT
           !.value = v2,
           !.confidence = IF lowered > MinConfidence THEN lowered ELSE MinConfidence,
           !.humanized = answer.humanized + 1]

(***************************************************************************)
(* Inputs of the model: the questions of the invocation and the replies    *)
(* the provider can give.                                                  *)
(***************************************************************************)
Red == Option(<<"r", "e", "d">>, <<"R", "e", "d">>)
Blue == Option(<<"b", "l", "u", "e">>, <<"B", "l", "u", "e">>)

\* question templates: type and options
QuestionPool ==
    << [type |-> "yes-no",
        options |-> << Option(YesNo[1], <<"Y", "e", "s">>),
                       Option(YesNo[2], <<"N", "o">>) >>],
       [type |-> "text", options |-> <<>>],
       [type |-> "single-choice", options |-> <<Red, Blue>>],
       [type |-> "single-choice",
        options |-> <<Red, NotADict(<<"B", "l", "u", "e">>)>>],
       [type |-> "rating", options |-> <<>>] >>

\* the n questions that start at template `start`; the ids are distinct and
\* descend, so that an id never equals the position of its question
QuestionList(n, start) ==
    [p \in 1..n |->
        LET t == QuestionPool[((start + p - 2) % Len(QuestionPool)) + 1]
        IN Question(10 * (n - p + 1), t.type, t.options)]

\* the templates a list of n questions starts at: a list of one batch starts
\* at any template, a longer list at the first or at the last, which gives
\* a second batch that begins with an invalid question or with a valid one
Starts(n) ==
    IF n <= batch_size THEN 1..Len(QuestionPool) ELSE {1, Len(QuestionPool)}

\* the most questions that an invocation still has to answer when the
\* service has a client, and when it has none: without a client no reply
\* varies, and the lists can be longer
QuestionBound(openai, anthropic) ==
    IF openai \/ anthropic THEN MaxQuestions ELSE MaxDegradedQuestions

\* A question is valid when every option is a dictionary.
ValidQuestion(q) == \A k \in 1..Len(q.options) : q.options[k].dict

(***************************************************************************)
(* JSON texts.  The replies of the model that hold JSON are written from   *)
(* the objects of JsonObjects; json.loads reads them as it reads any text. *)
(***************************************************************************)
\* the digits of a natural number
RECURSIVE NatText(_)
NatText(n) == IF n < 10 THEN DigitStr(n) ELSE NatText(n \div 10) \o DigitStr(n % 10)

\* the JSON number for a number of hundredths: 80 is 0.8, 150 is 1.5, -5 is
\* -0.05; padded, the second decimal is written when it is 0 (0.80)
NumberText(val, padded) ==
    LET abs == IF val < 0 THEN 0 - val ELSE val
    IN (IF val < 0 THEN <<"-">> ELSE <<>>)
           \o NatText(abs \div 100) \o <<".">> \o DigitStr((abs % 100) \div 10)
           \o (IF abs % 10 = 0 /\ ~padded THEN <<>> ELSE DigitStr(abs % 10))

\* a JSON string for a string without control characters
RECURSIVE Escaped(_)
Escaped(s) ==
    IF s = <<>> THEN <<>>
    ELSE (IF s[1] \in {"\"", "\\"} THEN <<"\\", s[1]>> ELSE <<s[1]>>)
             \o Escaped(Tail(s))

Quoted(s) == <<"\"">> \o Escaped(s) \o <<"\"">>

\* the JSON text of a value that is no list and no dict
ValueText(v, padded) ==
    CASE v.type = "str" -> Quoted(v.str)
      [] v.type = "int" ->
             (IF v.int < 0 THEN <<"-">> \o NatText(0 - v.int) ELSE NatText(v.int))
      [] v.type = "float" -> NumberText(Hundredths(v.float), padded)
      [] v.type = "bool" ->
             (IF v.bool THEN <<"t", "r", "u", "e">>
              ELSE <<"f", "a", "l", "s", "e">>)
      [] v.type = "NoneType" -> <<"n", "u", "l", "l">>

\* the layouts of an object: json.dumps with its separators, the compact
\* separators, the compact separators with padded numbers, and the layout
\* of the system prompt (lines 168-172)
Layouts ==
    [dumps |-> [open |-> <<>>, comma |-> <<",", " ">>, colon |-> <<":", " ">>,
                close |-> <<>>, padded |-> FALSE],
     compact |-> [open |-> <<>>, comma |-> <<",">>, colon |-> <<":">>,
                  close |-> <<>>, padded |-> FALSE],
     padded |-> [open |-> <<>>, comma |-> <<",">>, colon |-> <<":">>,
                 close |-> <<>>, padded |-> TRUE],
     prompt |-> [open |-> <<"\n", " ", " ", " ", " ">>,
                 comma |-> <<",", "\n", " ", " ", " ", " ">>,
                 colon |-> <<":", " ">>,
                 close |-> <<"\n">>, padded |-> FALSE]]

RECURSIVE Joined(_, _)
Joined(parts, comma) ==
    IF parts = <<>> THEN <<>>
    ELSE IF Len(parts) = 1 THEN parts[1]
    ELSE parts[1] \o comma \o Joined(Tail(parts), comma)

\* An object of the model: the names of its keys in the order of the text
\* (order) and the value of each (val).  Its members as <<key, value>> pairs:
Members(obj) ==
    [k \in 1..Len(obj.order) |-> <<Keys[obj.order[k]], obj.val[obj.order[k]]>>]

\* the JSON text of an object in a layout
JsonTextOf(obj, layout) ==
    IF obj.order = <<>> THEN <<"{", "}">>
    ELSE <<"{">> \o layout.open
             \o Joined([k \in 1..Len(obj.order) |->
                           Quoted(Members(obj)[k][1]) \o layout.colon
                               \o ValueText(Members(obj)[k][2], layout.padded)],
                       layout.comma)
             \o layout.close \o <<"}">>

\* the confidences the objects of the model hold
JsonConfidences == {0 - ConfidenceMargin, 10, 80, 100 + ConfidenceMargin}

\* what the keys of an object hold: an answer that is a string or a number;
\* a confidence that is a float, an int, a string that writes a number, a
\* string that writes none, or null; a reasoning
JsonValues ==
    [answer |-> {PyStr(<<"y", "e", "s">>), PyInt(7)},
     confidence |-> { PyFloat(v, -2) : v \in JsonConfidences }
                        \cup {PyInt(1), PyStr(<<"0", ".", "8">>),
                              PyStr(<<"h", "i", "g", "h">>), PyNone},
     reasoning |-> {PyStr(<<"o", "k">>), PyStr(<<>>)}]

\* the orders of the keys: those that keep the order answer, confidence,
\* reasoning, and the reverse of the three
KeyOrders ==
    { <<>>, <<"answer">>, <<"confidence">>, <<"reasoning">>,
      <<"answer", "confidence">>, <<"answer", "reasoning">>,
      <<"confidence", "reasoning">>,
      <<"answer", "confidence", "reasoning">>,
      <<"reasoning", "confidence", "answer">> }

JsonObject(order, val) == [order |-> order, val |-> val]

\* the objects of the model
JsonObjects ==
    UNION { { JsonObject(order, val) :
                  val \in { f \in [{ order[k] : k \in 1..Len(order) } ->
                                      UNION { JsonValues[n] : n \in DOMAIN JsonValues }] :
                                \A k \in 1..Len(order) :
                                    f[order[k]] \in JsonValues[order[k]] } } :
              order \in KeyOrders }

\* the object of the system prompt with the answer "yes", the reasoning
\* "ok" and a confidence
PromptObject(confidence) ==
    JsonObject(<<"answer", "confidence", "reasoning">>,
               [answer |-> PyStr(<<"y", "e", "s">>),
                confidence |-> PyFloat(confidence, -2),
                reasoning |-> PyStr(<<"o", "k">>)])

JsonText == JsonTextOf(PromptObject(80), Layouts.prompt)

\* a JSON object whose confidence lies above 1
OverconfidentText ==
    JsonTextOf(PromptObject(100 + ConfidenceMargin), Layouts.compact)

\* the completions of the provider: a JSON object, a {...} span that is not
\* JSON, free text, and a JSON object with a confidence above 1
Contents ==
    << ContentOf(JsonText),
       ContentOf(<<"{", "y", "e", "s", "}">>),
       ContentOf(<<"N", "o", ",", " ", "B", "l", "u", "e">>),
       ContentOf(OverconfidentText) >>

\* the scripts of the provider: without a client no completion is read, and
\* one script stands for all
Scripts(openai, anthropic) ==
    IF openai \/ anthropic THEN 0..(Len(Contents) - 1) ELSE {0}

\* what a call of the client can do
CallOutcomes == {"raise", "malformed", "ok"}

\* the ends of a draw's domain
Least(S) == CHOOSE x \in S : \A y \in S : x <= y
Greatest(S) == CHOOSE x \in S : \A y \in S : x >= y

\* random.uniform(0.1, 0.3), in hundredths
Reductions == 10..30

\* the draws of one run of generate_answer for question q when the client
\* does `call`, each any value of its domain: rx in the extraction and rf in
\* the fallback of the parser when the call returns a completion, rf2 in the
\* fallback of line 101 otherwise.  A draw the run does not make is held at
\* the least value: a completion is parsed only for a question whose prompt
\* was built, and the parser's fallback for such a question does not raise.
Draws(q, call) ==
    IF call = "ok"
    THEN { [rx |-> a, rf |-> b, rf2 |-> Least(RandomDomain(q))] :
               a \in RandomDomain(q), b \in RandomDomain(q) }
    ELSE { [rx |-> Least(RandomDomain(q)), rf |-> Least(RandomDomain(q)),
            rf2 |-> c] : c \in RandomDomain(q) }

(***************************************************************************)
(* State.                                                                  *)
(***************************************************************************)
VARIABLES
    openai_client,      \* self.openai_client is set
    anthropic_client,   \* self.anthropic_client is set
    questions,          \* the argument of process_poll_questions
    pc,                 \* where process_poll_questions is
    i,                  \* the loop variable of line 303
    j,                  \* the loop variable of line 310
    tasks,              \* the generate_answer tasks of the batch
    batch_answers,      \* the results asyncio.gather collects
    answers,            \* the list process_poll_questions returns
    total_cost,         \* self.total_cost
    request_count,      \* self.request_count
    provider_calls,     \* the calls made to each client so far
    succeeded,          \* per client, the calls that returned a readable
                        \* completion since the counters were set to 0
    last_reply,         \* per question, the reply to its latest attempt
    batch_mark,         \* the counters when the tasks of the batch were
                        \* created, or 0 when they were reset since
    pauses,             \* the asyncio.sleep calls of line 322 so far
    script,             \* which completion the provider returns to which call
    questions_data,     \* the argument of answer_questions_endpoint
    endpoint_result,    \* what answer_questions_endpoint returns
    arg,                \* the arguments of a function called on its own
    ret                 \* what that function returned

vars == <<openai_client, anthropic_client, questions, pc, i, j, tasks,
          batch_answers, answers, total_cost, request_count, provider_calls,
          succeeded, last_reply, batch_mark, pauses, script,
          questions_data, endpoint_result, arg, ret>>

\* len(questions)
N == Len(questions)

\* every remaining question is dispatched at once
RestLen == N - i

\* questions[i:i + batch_size], as positions of questions
BatchLen == IF N - i < batch_size THEN N - i ELSE batch_size

\* last_reply: what the client did in the latest attempt and, when it
\* returned a completion, which (Contents[content]); "no client" and
\* "no call" are attempts that called no client, NotCalled is no attempt yet
NotCalled == [call |-> "not called", content |-> 0]
Reply(call, content) ==
    [call |-> call, content |-> IF call = "ok" THEN content ELSE 0]

\* calls per client: none
NoCalls == [openai |-> 0, anthropic |-> 0]

Counters(count, cost, ok) == [count |-> count, cost |-> cost, succeeded |-> ok]

\* the completion the provider has for attempt `attempt` of question p
Completion(p, attempt) == ((script + p + attempt) % Len(Contents)) + 1

\* no call was made, nothing was returned
NoValue == [kind |-> "none"]

Pending == [kind |-> "pending", ans |-> NoAnswer]
Exception == [kind |-> "exception", ans |-> NoAnswer]
Result(a) == [kind |-> "answer", ans |-> a]

\* LLMService.__init__ and setup_clients, then the entry of process_poll_questions
Init ==
    /\ openai_client \in BOOLEAN
    /\ anthropic_client \in BOOLEAN
    /\ \E n \in 0..QuestionBound(openai_client, anthropic_client) :
       \E start \in Starts(n) :
           questions = QuestionList(n, start)
    /\ pc = "loop"
    /\ i = 0
    /\ j = 0
    /\ tasks = <<>>
    /\ batch_answers = <<>>
    /\ answers = <<>>
    /\ total_cost = 0
    /\ request_count = 0
    /\ provider_calls = NoCalls
    /\ succeeded = NoCalls
    /\ last_reply = [p \in 1..Len(questions) |-> NotCalled]
    /\ batch_mark = Counters(0, 0, NoCalls)
    /\ pauses = 0
    /\ script \in Scripts(openai_client, anthropic_client)
    /\ questions_data = <<>>
    /\ endpoint_result = NoValue
    /\ arg = NoValue
    /\ ret = NoValue

(***************************************************************************)
(* LLMService.process_poll_questions.                                      *)
(***************************************************************************)
\* line 307: one generate_answer task per question of the batch
CreateTasks(n) == [k \in 1..n |-> [state |-> "pending", attempt |-> 0]]

\* the result lands at the first free position: the order of completion
GatherByCompletion(results, k, r) ==
    [results EXCEPT
        ![CHOOSE m \in 1..Len(results) :
              /\ results[m].kind = "pending"
              /\ \A n \in 1..(m - 1) : results[n].kind # "pending"] = r]

\* asyncio.gather keeps the result of a task at the position of the task
GatherPlace(results, k, r) == [results EXCEPT ![k] = r]

\* every batch is followed by a pause, the last one too
PauseAfterEveryBatch(start, len) == start < len

\* the test of line 321
PauseNeeded(start, len) == start + batch_size < len

\* lines 303-308: the next batch is cut and its tasks are created
StartBatch ==
    /\ pc = "loop"
    /\ i < N
    /\ tasks' = CreateTasks(BatchLen)
    /\ batch_answers' = [k \in 1..BatchLen |-> Pending]
    /\ j' = 0
    /\ batch_mark' = Counters(request_count, total_cost, succeeded)
    /\ pc' = "gather"
    /\ UNCHANGED <<openai_client, anthropic_client, questions, i, answers,
                   total_cost, request_count, provider_calls, succeeded,
                   last_reply, pauses, script,
                   questions_data, endpoint_result, arg, ret>>

\* what the selected client can do when called; there is no call without a
\* client, nor when building the prompt raises
CallDomain(q) ==
    IF SelectProvider(openai_client, anthropic_client) = "none"
    THEN {"no client"}
    ELSE IF _build_prompt(q).exc
    THEN {"no call"}
    ELSE CallOutcomes

\* what one run of generate_answer for task k of the batch can read, when
\* the client does `call`: one record for each outcome of its draws
AttemptInputs(k, call) ==
    { [q |-> questions[i + k],
       resp |-> Response(call, Contents[Completion(i + k, tasks[k].attempt)]),
       rx |-> d.rx, rf |-> d.rf, rf2 |-> d.rf2] :
          d \in Draws(questions[i + k], call) }

\* one run of the body of generate_answer on these inputs
Attempt(in) ==
    generate_answer(in.q, openai_client, anthropic_client, in.resp,
                    in.rx, in.rf, in.rf2, request_count)

Runnable(k) ==
    /\ pc = "gather"
    /\ k \in 1..Len(tasks)
    /\ tasks[k].state # "done"

\* the effects of an attempt on the counters, and its record
AttemptEffects(k, call, g) ==
    /\ total_cost' = total_cost + g.dcost
    /\ request_count' = g.count
    /\ provider_calls' =
           IF call \in CallOutcomes
           THEN [provider_calls EXCEPT ![g.provider] = @ + 1]
           ELSE provider_calls
    /\ succeeded' = IF call = "ok"
                    THEN [succeeded EXCEPT ![g.provider] = @ + 1]
                    ELSE succeeded
    /\ last_reply' = [last_reply EXCEPT ![i + k] =
                         Reply(call, Completion(i + k, tasks[k].attempt))]

Returns(k, call) ==
    \E in \in AttemptInputs(k, call) : \E g \in {Attempt(in)} :
        /\ ~g.exc
        /\ AttemptEffects(k, call, g)
        /\ batch_answers' = GatherPlace(batch_answers, k, Result(g.ans))

Raises(k, call) ==
    \E in \in AttemptInputs(k, call) : \E g \in {Attempt(in)} :
        /\ g.exc
        /\ AttemptEffects(k, call, g)

\* the event loop runs task k and generate_answer returns an Answer
AttemptReturns(k) ==
    /\ Runnable(k)
    /\ tasks' = [tasks EXCEPT ![k] =
                    [state |-> "done", attempt |-> @.attempt + 1]]
    /\ UNCHANGED <<openai_client, anthropic_client, questions, pc, i, j,
                   answers, batch_mark, pauses, script,
                   questions_data, endpoint_result, arg, ret>>
    /\ \E call \in CallDomain(questions[i + k]) : Returns(k, call)

\* the decorator does not stop after the third attempt and calls again for
\* ever
AttemptRetriesForEver(k) ==
    /\ Runnable(k)
    /\ tasks' = [tasks EXCEPT ![k] =
                    [state |-> "backoff", attempt |-> @.attempt + 1]]
    /\ UNCHANGED <<openai_client, anthropic_client, questions, pc, i, j,
                   batch_answers, answers, batch_mark, pauses, script,
                   questions_data, endpoint_result, arg, ret>>
    /\ \E call \in CallDomain(questions[i + k]) : Raises(k, call)

\* an exception leaves generate_answer before the last attempt: the retry
\* decorator of line 83 waits (asyncio.sleep) and will call it again
AttemptRetries(k) ==
    /\ Runnable(k)
    /\ tasks[k].attempt + 1 < MaxAttempts
    /\ tasks' = [tasks EXCEPT ![k] =
                    [state |-> "backoff", attempt |-> @.attempt + 1]]
    /\ UNCHANGED <<openai_client, anthropic_client, questions, pc, i, j,
                   batch_answers, answers, batch_mark, pauses, script,
                   questions_data, endpoint_result, arg, ret>>
    /\ \E call \in CallDomain(questions[i + k]) : Raises(k, call)

\* an exception leaves generate_answer in the last attempt: the decorator
\* raises RetryError, which gather(return_exceptions=True) keeps as the result
AttemptGivesUp(k) ==
    /\ Runnable(k)
    /\ tasks[k].attempt + 1 >= MaxAttempts
    /\ batch_answers' = GatherPlace(batch_answers, k, Exception)
    /\ tasks' = [tasks EXCEPT ![k] =
                    [state |-> "done", attempt |-> @.attempt + 1]]
    /\ UNCHANGED <<openai_client, anthropic_client, questions, pc, i, j,
                   answers, batch_mark, pauses, script,
                   questions_data, endpoint_result, arg, ret>>
    /\ \E call \in CallDomain(questions[i + k]) : Raises(k, call)

\* line 308: every task is done and the await of gather returns
GatherReturns ==
    /\ pc = "gather"
    /\ \A k \in 1..Len(tasks) : tasks[k].state = "done"
    /\ pc' = "collect"
    /\ UNCHANGED <<openai_client, anthropic_client, questions, i, j, tasks,
                   batch_answers, answers, total_cost, request_count,
                   provider_calls, succeeded, last_reply, batch_mark, pauses,
                   script,
                   questions_data, endpoint_result, arg, ret>>

\* line 318, for an Answer that gather returned: the object is humanized in
\* place, so the list of gather shows the change too
KeepResult(result) ==
    /\ answers' = Append(answers, result)
    /\ batch_answers' = [batch_answers EXCEPT ![j + 1] = Result(result)]

\* lines 310-318 for a result that is an Answer: it is humanized and appended
CollectAnswer ==
    /\ pc = "collect"
    /\ j < Len(batch_answers)
    /\ batch_answers[j + 1].kind = "answer"
    /\ \E u1, u2 \in BOOLEAN : \E reduce \in Reductions :
           KeepResult(make_answer_human_like(batch_answers[j + 1].ans,
                                             questions[i + j + 1],
                                             u1, u2, reduce))
    /\ j' = j + 1
    /\ UNCHANGED <<openai_client, anthropic_client, questions, pc, i, tasks,
                   total_cost, request_count, provider_calls, succeeded,
                   last_reply, batch_mark, pauses, script,
                   questions_data, endpoint_result, arg, ret>>

\* the fallback answer of line 314 is appended as it is
KeepFallbackRaw(q, f, u1, u2, reduce) ==
    /\ ~f.exc
    /\ answers' = Append(answers, f.ans)

\* lines 314-318, for the fallback answer of a result that is an exception
KeepFallback(q, f, u1, u2, reduce) ==
    /\ ~f.exc
    /\ answers' = Append(answers,
                         make_answer_human_like(f.ans, q, u1, u2, reduce))

\* lines 311-318 for a result that is an exception: the fallback answer is
\* generated, humanized and appended
CollectFallback ==
    /\ pc = "collect"
    /\ j < Len(batch_answers)
    /\ batch_answers[j + 1].kind = "exception"
    /\ \E r \in RandomDomain(questions[i + j + 1]) :
       \E u1, u2 \in BOOLEAN : \E reduce \in Reductions :
           KeepFallback(questions[i + j + 1],
                        _generate_fallback_answer(questions[i + j + 1], r),
                        u1, u2, reduce)
    /\ j' = j + 1
    /\ UNCHANGED <<openai_client, anthropic_client, questions, pc, i, tasks,
                   batch_answers, total_cost, request_count, provider_calls,
                   succeeded, last_reply, batch_mark, pauses, script,
                   questions_data, endpoint_result, arg, ret>>

\* line 314 raises: the exception leaves process_poll_questions
CollectRaises ==
    /\ pc = "collect"
    /\ j < Len(batch_answers)
    /\ batch_answers[j + 1].kind = "exception"
    /\ \E r \in RandomDomain(questions[i + j + 1]) :
           _generate_fallback_answer(questions[i + j + 1], r).exc
    /\ pc' = "raised"
    /\ UNCHANGED <<openai_client, anthropic_client, questions, i, j, tasks,
                   batch_answers, answers, total_cost, request_count,
                   provider_calls, succeeded, last_reply, batch_mark, pauses,
                   script,
                   questions_data, endpoint_result, arg, ret>>

\* lines 321-322: another batch follows, the coroutine sleeps
Pause ==
    /\ pc = "collect"
    /\ j = Len(batch_answers)
    /\ PauseNeeded(i, N)
    /\ pauses' = pauses + 1
    /\ pc' = "sleep"
    /\ UNCHANGED <<openai_client, anthropic_client, questions, i, j, tasks,
                   batch_answers, answers, total_cost, request_count,
                   provider_calls, succeeded, last_reply, script,
                   batch_mark,
                   questions_data, endpoint_result, arg, ret>>

\* the sleep ends and the loop of line 303 takes its next value
Resume ==
    /\ pc = "sleep"
    /\ i' = i + batch_size
    /\ pc' = "loop"
    /\ UNCHANGED <<openai_client, anthropic_client, questions, j, tasks,
                   batch_answers, answers, total_cost, request_count,
                   provider_calls, succeeded, last_reply, batch_mark, pauses,
                   script,
                   questions_data, endpoint_result, arg, ret>>

\* no batch follows: the loop of line 303 ends without a sleep
SkipPause ==
    /\ pc = "collect"
    /\ j = Len(batch_answers)
    /\ ~PauseNeeded(i, N)
    /\ i' = i + batch_size
    /\ pc' = "loop"
    /\ UNCHANGED <<openai_client, anthropic_client, questions, j, tasks,
                   batch_answers, answers, total_cost, request_count,
                   provider_calls, succeeded, last_reply, batch_mark, pauses,
                   script,
                   questions_data, endpoint_result, arg, ret>>

\* lines 324-325: the range is exhausted and answers is returned
Return ==
    /\ pc = "loop"
    /\ i >= N
    /\ pc' = "done"
    /\ UNCHANGED <<openai_client, anthropic_client, questions, i, j, tasks,
                   batch_answers, answers, total_cost, request_count,
                   provider_calls, succeeded, last_reply, batch_mark, pauses,
                   script,
                   questions_data, endpoint_result, arg, ret>>

\* the steps of process_poll_questions
Invocation ==
    \/ StartBatch
    \/ \E k \in 1..Len(tasks) : AttemptReturns(k)
    \/ \E k \in 1..Len(tasks) : AttemptRetries(k)
    \/ \E k \in 1..Len(tasks) : AttemptGivesUp(k)
    \/ GatherReturns
    \/ CollectAnswer
    \/ CollectFallback
    \/ CollectRaises
    \/ Pause
    \/ Resume
    \/ SkipPause
    \/ Return

(***************************************************************************)
(* The other public methods that write the state of the service.  A        *)
(* caller that holds the service calls them when the event loop runs it:   *)
(* not between two statements of process_poll_questions, which run without *)
(* an await from line 309 to line 321 and from line 322 to line 308.       *)
(***************************************************************************)
\* process_poll_questions is not running: it was not entered yet, it is
\* suspended in the gather of line 308 or in the sleep of line 322, or it
\* has ended
Suspended == pc # "collect" /\ (pc = "loop" => i = 0)

\* LLMService.reset_stats
reset_stats ==
    /\ Suspended
    /\ total_cost' = 0
    /\ request_count' = 0
    /\ succeeded' = NoCalls
    /\ batch_mark' = Counters(0, 0, NoCalls)
    /\ UNCHANGED <<openai_client, anthropic_client, questions, pc, i, j,
                   tasks, batch_answers, answers, provider_calls, last_reply,
                   pauses, script, questions_data, endpoint_result, arg, ret>>

\* LLMService.setup_clients: a client is constructed for each key that
\* os.getenv finds (openai_key, anthropic_key), and a client that was set
\* stays set.  The questions the invocation has not answered yet are within
\* QuestionBound for the clients there are then.
setup_clients ==
    /\ Suspended
    /\ \E openai_key, anthropic_key \in BOOLEAN :
           /\ openai_client' = (openai_client \/ openai_key)
           /\ anthropic_client' = (anthropic_client \/ anthropic_key)
    /\ N - Len(answers) <= QuestionBound(openai_client', anthropic_client')
    /\ UNCHANGED <<questions, pc, i, j, tasks, batch_answers, answers,
                   total_cost, request_count, provider_calls, succeeded,
                   last_reply, batch_mark, pauses, script, questions_data,
                   endpoint_result, arg, ret>>

Next ==
    \/ Invocation
    \/ reset_stats
    \/ setup_clients

Spec == Init /\ [][Next]_vars

\* The event loop runs a task that can run, a sleep ends, and a provider
\* call returns or fails within its timeout: a step that is possible is
\* eventually taken.  The invocations are those of the primary client or of
\* no client.
LiveInit ==
    /\ Init
    /\ ~anthropic_client
    /\ script = 0

LiveSpec == LiveInit /\ [][Next]_vars /\ WF_vars(Invocation)

(***************************************************************************)
(* Functions called on their own: a call is the record arg, the action of  *)
(* the function computes ret from it.  The service is idle meanwhile.      *)
(***************************************************************************)
service == <<openai_client, anthropic_client, questions, i, j, tasks,
             batch_answers, answers, total_cost, request_count,
             provider_calls, succeeded, last_reply, batch_mark, pauses,
             script, questions_data, endpoint_result>>

\* a constructed service on which process_poll_questions is not running
Idle ==
    /\ openai_client = FALSE
    /\ anthropic_client = FALSE
    /\ questions = <<>>
    /\ i = 0
    /\ j = 0
    /\ tasks = <<>>
    /\ batch_answers = <<>>
    /\ answers = <<>>
    /\ total_cost = 0
    /\ request_count = 0
    /\ provider_calls = NoCalls
    /\ succeeded = NoCalls
    /\ last_reply = <<>>
    /\ batch_mark = Counters(0, 0, NoCalls)
    /\ pauses = 0
    /\ script = 0
    /\ questions_data = <<>>
    /\ endpoint_result = NoValue

\* the confidences an Answer is given: hundredths from -ConfidenceMargin to
\* 100 + ConfidenceMargin
Confidences == (0 - ConfidenceMargin)..(100 + ConfidenceMargin)

\* the Answers and Questions make_answer_human_like is called with
HumanizerCalls ==
    { [kind |-> "make_answer_human_like",
       answer |-> Answer(10, v, c, PyStr(<<"o", "k">>)),
       question |-> Question(10, t, <<>>)] :
          v \in { PyStr(<<"O", "K">>),
                  PyStr(<<"É", "c", "o", "u", "t", "e">>),
                  PyInt(7) },
          c \in Confidences, t \in {"text", "rating"} }

HumanizerInit ==
    /\ Idle
    /\ pc = "call"
    /\ arg \in HumanizerCalls
    /\ ret = NoValue

\* LLMService.make_answer_human_like, with every outcome of its draws
CallHumanizer ==
    /\ pc = "call"
    /\ arg.kind = "make_answer_human_like"
    /\ \E u1, u2 \in BOOLEAN : \E reduce \in Reductions :
           ret' = make_answer_human_like(arg.answer, arg.question, u1, u2,
                                         reduce)
    /\ pc' = "returned"
    /\ UNCHANGED <<service, arg>>

HumanizerNext == CallHumanizer

HumanizerSpec == HumanizerInit /\ [][HumanizerNext]_vars

\* the questions the functions are called with: one of each template
CallQuestions ==
    { Question(10, QuestionPool[t].type, QuestionPool[t].options) :
          t \in 1..Len(QuestionPool) }

\* prose around a JSON object
Prose == <<"S", "u", "r", "e", ":", " ">>

\* the objects that hold the three keys
FullObjects == { obj \in JsonObjects : Len(obj.order) = 3 }

\* the responses _parse_llm_response is called with: the JSON text of every
\* object in the compact layout and inside prose, that of the objects with
\* three keys in every layout; braces that hold no JSON, that hold an
\* object cut short or with a comma too many, that follow an object, and
\* that form no span; free text
ParserResponses ==
    { JsonTextOf(obj, Layouts.compact) : obj \in JsonObjects }
        \cup { JsonTextOf(obj, Layouts[l]) :
                   obj \in FullObjects, l \in DOMAIN Layouts }
        \cup { Prose \o JsonTextOf(obj, Layouts.dumps) \o <<".">> :
                   obj \in JsonObjects }
        \cup { <<"{", "y", "e", "s", "}">>,
               SubSeq(OverconfidentText, 1, Len(OverconfidentText) - 2)
                   \o <<"}">>,
               SubSeq(OverconfidentText, 1, Len(OverconfidentText) - 1)
                   \o <<",", "}">>,
               JsonText \o <<" ", "{", "n", "o", "}">>,
               <<"}", " ", "y", "e", "s", " ", "{">>,
               <<"{", "y", "e", "s">>,
               <<"N", "o", ",", " ", "B", "l", "u", "e">>,
               <<"7">>,
               <<>> }

ParserCalls ==
    { [kind |-> "_parse_llm_response", question |-> q, response |-> t] :
          q \in CallQuestions, t \in ParserResponses }

ParserInit ==
    /\ Idle
    /\ pc = "call"
    /\ arg \in ParserCalls
    /\ ret = NoValue

\* LLMService._parse_llm_response, with every outcome of its draws
CallParser ==
    /\ pc = "call"
    /\ arg.kind = "_parse_llm_response"
    /\ \E rx, rf \in RandomDomain(arg.question) :
           ret' = _parse_llm_response(arg.question, ContentOf(arg.response),
                                      rx, rf)
    /\ pc' = "returned"
    /\ UNCHANGED <<service, arg>>

ParserNext == CallParser

ParserSpec == ParserInit /\ [][ParserNext]_vars

\* an option dictionary that holds one key only
ValueOnly(value) ==
    [dict |-> TRUE, keys |-> {"value"}, value |-> value, label |-> <<>>]
LabelOnly(label) ==
    [dict |-> TRUE, keys |-> {"label"}, value |-> <<>>, label |-> label]

Crimson == Option(<<"r", "e", "d">>, <<"C", "r", "i", "m", "s", "o", "n">>)

\* the questions _extract_answer_from_text is called with: those of
\* CallQuestions, a yes-no question whose options hold a value only, and
\* choices whose labels differ from the values, hold a letter that is not
\* ASCII, or lack a key
ExtractionQuestions ==
    CallQuestions
        \cup { Question(10, "yes-no",
                        <<ValueOnly(YesNo[1]), ValueOnly(YesNo[2])>>),
               Question(10, "single-choice", <<Crimson, Blue>>),
               Question(10, "single-choice", <<Blue, Crimson>>),
               Question(10, "single-choice",
                        <<Option(<<"s", "u", "m", "m", "e", "r">>,
                                 <<"É", "t", "é">>), Blue>>),
               Question(10, "multiple-choice",
                        <<ValueOnly(<<"r", "e", "d">>),
                          LabelOnly(<<"B", "l", "u", "e">>)>>) }

ExtractionResponses ==
    { <<"Y", "e", "s">>,
      <<"I", " ", "a", "g", "r", "e", "e">>,
      <<"I", " ", "d", "i", "s", "a", "g", "r", "e", "e">>,
      <<"I", "n", "c", "o", "r", "r", "e", "c", "t">>,
      <<"n", "o">>,
      <<"T", "h", "a", "t", " ", "i", "s", " ", "f", "a", "l", "s", "e">>,
      <<"n", "a", "h">>,
      <<"t", "r", "u", "e", ",", " ", "n", "o", "t", " ", "f", "a", "l", "s", "e">>,
      <<"r", "e", "d">>,
      <<"I", " ", "p", "i", "c", "k", " ", "b", "l", "u", "e">>,
      <<"c", "r", "i", "m", "s", "o", "n", "!">>,
      <<"g", "r", "e", "e", "n">>,
      <<"b", "l", "u", "e", " ", "o", "r", " ", "R", "E", "D">>,
      <<"e", "n", " ", "é", "t", "é">>,
      <<"é", "5">>,
      <<"7", "\r", "\n">>,
      <<"y", "e", "s", "\r">>,
      <<>> }

ExtractionCalls ==
    { [kind |-> "_extract_answer_from_text", question |-> q, response |-> t] :
          q \in ExtractionQuestions, t \in ExtractionResponses }

ExtractionInit ==
    /\ Idle
    /\ pc = "call"
    /\ arg \in ExtractionCalls
    /\ ret = NoValue

\* LLMService._extract_answer_from_text, with every outcome of its draw
CallExtraction ==
    /\ pc = "call"
    /\ arg.kind = "_extract_answer_from_text"
    /\ \E r \in RandomDomain(arg.question) :
           ret' = _extract_answer_from_text(arg.question, arg.response, r)
    /\ pc' = "returned"
    /\ UNCHANGED <<service, arg>>

ExtractionNext == CallExtraction

ExtractionSpec == ExtractionInit /\ [][ExtractionNext]_vars

(***************************************************************************)
(* The fallback answer and its humanizing (lines 313-316), on their own    *)
(* with every reduction, beside the invocations of the service.            *)
(***************************************************************************)
SynthesisCalls ==
    { [kind |-> "_generate_fallback_answer", question |-> q, reduce |-> d] :
          q \in CallQuestions, d \in Reductions }

SynthesisInit ==
    \/ Init
    \/ /\ Idle
       /\ pc = "call"
       /\ arg \in SynthesisCalls
       /\ ret = NoValue

\* line 313: _generate_fallback_answer returns an Answer
CallFallback ==
    /\ pc = "call"
    /\ arg.kind = "_generate_fallback_answer"
    /\ \E r \in RandomDomain(arg.question) :
           /\ ~_generate_fallback_answer(arg.question, r).exc
           /\ ret' = _generate_fallback_answer(arg.question, r).ans
    /\ pc' = "synthesized"
    /\ UNCHANGED <<service, arg>>

\* line 313: _generate_fallback_answer raises on an option that is no dictionary
FallbackRaises ==
    /\ pc = "call"
    /\ arg.kind = "_generate_fallback_answer"
    /\ \E r \in RandomDomain(arg.question) :
           _generate_fallback_answer(arg.question, r).exc
    /\ pc' = "raised"
    /\ UNCHANGED <<service, arg, ret>>

\* line 316: the Answer goes through make_answer_human_like, which draws
\* the reduction arg.reduce
HumanizeFallback ==
    /\ pc = "synthesized"
    /\ \E u1, u2 \in BOOLEAN :
           ret' = make_answer_human_like(ret, arg.question, u1, u2, arg.reduce)
    /\ pc' = "returned"
    /\ UNCHANGED <<service, arg>>

SynthesisNext ==
    \/ Next
    \/ CallFallback
    \/ FallbackRaises
    \/ HumanizeFallback

SynthesisSpec == SynthesisInit /\ [][SynthesisNext]_vars

(***************************************************************************)
(* Statistics.                                                             *)
(***************************************************************************)
\* round(x, 4) of a quotient num / den of thousandths, in ten-thousandths
RoundedQuotient(num, den) == (20 * num + den) \div (2 * den)

\* LLMService.get_stats; total_cost in thousandths (round(., 4) keeps them),
\* avg_cost_per_request in ten-thousandths
get_stats ==
    [total_requests |-> request_count,
     total_cost |-> total_cost,
     avg_cost_per_request |->
         RoundedQuotient(total_cost,
                         IF request_count > 1 THEN request_count ELSE 1),
     openai_available |-> openai_client,
     anthropic_available |-> anthropic_client]

(***************************************************************************)
(* answer_questions_endpoint.                                              *)
(***************************************************************************)
RequiredKeys == {"id", "text", "type"}
OptionalKeys == {"options", "required"}

\* an element of questions_data: a dictionary holding `keys` of question q
QuestionData(q, keys) ==
    [keys |-> keys, id |-> q.id, type |-> q.type, options |-> q.options]

\* the dictionaries of a list of questions; `lacking` maps a position to the
\* keys its dictionary lacks
DataOf(qs, optional, lacking) ==
    [p \in 1..Len(qs) |->
        QuestionData(qs[p], (RequiredKeys \cup optional) \ lacking[p])]

\* the inputs of the endpoint: the dictionaries of up to
\* MaxEndpointQuestions questions, with or without the optional keys, none
\* or one of them lacking a required key
EndpointInputs ==
    UNION { UNION { { DataOf(QuestionList(n, start), optional,
                             [p \in 1..n |-> IF p = d THEN {key} ELSE {}]) :
                          optional \in {{}, OptionalKeys},
                          d \in 0..n,
                          key \in RequiredKeys } :
                      start \in Starts(n) } :
              n \in 0..MaxEndpointQuestions }

\* q_data[key] raises KeyError
Defective(q_data) == ~(RequiredKeys \subseteq q_data.keys)

\* lines 349-355
ToQuestion(q_data) ==
    Question(q_data.id, q_data.type,
             IF "options" \in q_data.keys THEN q_data.options ELSE <<>>)

\* lines 364-369
ToDict(a) ==
    [question_id |-> a.question_id, value |-> a.value,
     confidence |-> a.confidence, reasoning |-> a.reasoning]

\* lines 362-373
ResultOf(as, stats) ==
    [keys |-> {"answers", "stats"},
     answers |-> [p \in 1..Len(as) |-> ToDict(as[p])],
     stats |-> stats]

\* lines 379-383
ErrorResult ==
    [keys |-> {"error", "answers", "stats"}, answers |-> <<>>, stats |-> <<>>]

\* the service the endpoint constructs has the primary client or none: the
\* conversion of the request reads neither
EndpointInit ==
    /\ openai_client \in BOOLEAN
    /\ anthropic_client = FALSE
    /\ questions_data \in EndpointInputs
    /\ Len(questions_data) <= QuestionBound(openai_client, anthropic_client)
    /\ questions = <<>>
    /\ pc = "endpoint"
    /\ i = 0
    /\ j = 0
    /\ tasks = <<>>
    /\ batch_answers = <<>>
    /\ answers = <<>>
    /\ total_cost = 0
    /\ request_count = 0
    /\ provider_calls = NoCalls
    /\ succeeded = NoCalls
    /\ last_reply = <<>>
    /\ batch_mark = Counters(0, 0, NoCalls)
    /\ pauses = 0
    /\ script = 0
    /\ endpoint_result = NoValue
    /\ arg = NoValue
    /\ ret = NoValue

\* lines 347-359: every dictionary holds the required keys; the questions
\* are built, the service is constructed and process_poll_questions entered
ConvertQuestions ==
    /\ pc = "endpoint"
    /\ \A p \in 1..Len(questions_data) : ~Defective(questions_data[p])
    /\ questions' = [p \in 1..Len(questions_data) |->
                        ToQuestion(questions_data[p])]
    /\ last_reply' = [p \in 1..Len(questions_data) |-> NotCalled]
    /\ pc' = "loop"
    /\ UNCHANGED <<openai_client, anthropic_client, i, j, tasks,
                   batch_answers, answers, total_cost, request_count,
                   provider_calls, succeeded, batch_mark, pauses, script,
                   questions_data, endpoint_result, arg, ret>>

\* the dictionaries are taken as they come, a missing key reads as nothing
ConvertUnchecked ==
    /\ pc = "endpoint"
    /\ \E p \in 1..Len(questions_data) : Defective(questions_data[p])
    /\ questions' = [p \in 1..Len(questions_data) |->
                        ToQuestion(questions_data[p])]
    /\ last_reply' = [p \in 1..Len(questions_data) |-> NotCalled]
    /\ pc' = "loop"
    /\ UNCHANGED <<openai_client, anthropic_client, i, j, tasks,
                   batch_answers, answers, total_cost, request_count,
                   provider_calls, succeeded, batch_mark, pauses, script,
                   questions_data, endpoint_result, arg, ret>>

\* lines 349-352 raise KeyError on a dictionary that lacks a required key:
\* the except branch of lines 377-383 returns the error result
ConvertRaises ==
    /\ pc = "endpoint"
    /\ \E p \in 1..Len(questions_data) : Defective(questions_data[p])
    /\ endpoint_result' = ErrorResult
    /\ pc' = "responded"
    /\ UNCHANGED <<openai_client, anthropic_client, questions, i, j, tasks,
                   batch_answers, answers, total_cost, request_count,
                   provider_calls, succeeded, last_reply, batch_mark, pauses,
                   script, questions_data, arg, ret>>

\* lines 361-375: process_poll_questions has returned
Respond ==
    /\ pc = "done"
    /\ endpoint_result' = ResultOf(answers, get_stats)
    /\ pc' = "responded"
    /\ UNCHANGED <<openai_client, anthropic_client, questions, i, j, tasks,
                   batch_answers, answers, total_cost, request_count,
                   provider_calls, succeeded, last_reply, batch_mark, pauses,
                   script, questions_data, arg, ret>>

\* lines 377-383: process_poll_questions has raised
RespondError ==
    /\ pc = "raised"
    /\ endpoint_result' = ErrorResult
    /\ pc' = "responded"
    /\ UNCHANGED <<openai_client, anthropic_client, questions, i, j, tasks,
                   batch_answers, answers, total_cost, request_count,
                   provider_calls, succeeded, last_reply, batch_mark, pauses,
                   script, questions_data, arg, ret>>

EndpointNext ==
    \/ ConvertQuestions
    \/ ConvertRaises
    \/ Invocation
    \/ Respond
    \/ RespondError

EndpointSpec == EndpointInit /\ [][EndpointNext]_vars

(***************************************************************************)
(* Vocabulary of the properties.                                           *)
(***************************************************************************)
Positions == 1..N

AllValid == \A p \in Positions : ValidQuestion(questions[p])

\* the batch a question belongs to, counted from 0
BatchOf(p) == (p - 1) \div batch_size

\* task k of the current batch exists and is not done
InFlight(k) ==
    /\ pc = "gather"
    /\ k \in 1..Len(tasks)
    /\ tasks[k].state # "done"

\* result k of the current batch is an Answer the humanizer has not yet seen
Fresh(k) ==
    /\ pc \in {"gather", "collect"}
    /\ k \in 1..Len(batch_answers)
    /\ batch_answers[k].kind = "answer"
    /\ (pc = "collect" => k > j)

\* the latest call for question p failed at the provider
ProviderFailed(p) == last_reply[p].call \in {"raise", "malformed"}

\* the latest call for question p returned a completion the parser accepts:
\* an object with a numeric confidence, or text without a {...} span
ParsedReply(p) ==
    /\ last_reply[p].call = "ok"
    /\ LET c == Contents[last_reply[p].content]
       IN IF HasJsonSpan(c.text)
          THEN /\ ~c.loads.exc
               /\ ~float(DictGet(c.loads.data, Keys.confidence,
                                 DefaultConfidence)).exc
          ELSE ValidQuestion(questions[p])

IsFallback(a) ==
    a.confidence = FallbackConfidence /\ a.reasoning = FallbackReasoning

\* a is what the parser makes of completion c for question q
ProviderDerived(a, q, c) ==
    /\ a.question_id = q.id
    /\ IF HasJsonSpan(c.text)
       THEN /\ a.value.py = DictGet(c.loads.data, Keys.answer, PyStr(<<>>))
            /\ a.confidence = float(DictGet(c.loads.data, Keys.confidence,
                                            DefaultConfidence)).val
            /\ a.reasoning = DictGet(c.loads.data, Keys.reasoning, PyStr(<<>>))
       ELSE /\ a.confidence = TextConfidence
            /\ a.reasoning = TextReasoning

CeilDiv(a, b) == (a + b - 1) \div b

\* the constant the calls of a client add to self.total_cost (lines 120, 145)
PerCallCost(provider) ==
    IF provider = "openai" THEN OPENAI_COST
    ELSE IF provider = "anthropic" THEN ANTHROPIC_COST
    ELSE 0

\* a generation for question p has started
Started(p) ==
    \/ last_reply[p] # NotCalled
    \/ pc = "gather" /\ p - i \in 1..Len(tasks)

(***************************************************************************)
(* Properties.                                                             *)
(***************************************************************************)

\* C1: process_poll_questions returns exactly one Answer per Question, in
\* the order of the input, and the Answer at position p carries the id of
\* the Question at position p, whatever the provider calls and the parses
\* did; with valid Questions no exception leaves it.
OneAnswerPerQuestionInOrder ==
    /\ Len(answers) <= N
    /\ \A p \in 1..Len(answers) : answers[p].question_id = questions[p].id
    /\ pc = "done" => Len(answers) = N
    /\ AllValid => pc # "raised"

\* a returned list of valid questions of which the first got JSON from the
\* provider after the call for the second had failed
OrderedDespiteFailures ==
    /\ pc = "done"
    /\ N >= 2
    /\ AllValid
    /\ Len(answers) = N
    /\ ProviderFailed(2)
    /\ last_reply[1] = Reply("ok", 1)
    /\ provider_calls.openai = 2
    /\ succeeded.openai = 1
    /\ request_count = 1

\* C2: a failed provider call is attempted again, up to MaxAttempts attempts
\* for the question, and the fallback answer is produced only after the
\* third attempt has failed: a generation that ends on a failed call has
\* made MaxAttempts attempts.
FallbackOnlyAfterThirdAttempt ==
    \A k \in 1..Len(tasks) :
        (/\ pc \in {"gather", "collect"}
         /\ tasks[k].state = "done"
         /\ ProviderFailed(i + k)) => tasks[k].attempt = MaxAttempts

\* C3: a failure of the provider or of the parse of one question changes
\* nothing for the others and never aborts the batch: before the humanizer,
\* the result of a question whose call and parse succeeded is the
\* provider-derived Answer, and the result of a question whose call or
\* parse failed is the fallback Answer (confidence 0.3, reasoning
\* "Fallback answer due to API failure"), whatever happened to the rest.
FailuresAbsorbedPerQuestion ==
    /\ AllValid =>
           /\ pc # "raised"
           /\ \A k \in 1..Len(batch_answers) :
                  batch_answers[k].kind # "exception"
    /\ \A k \in 1..Len(batch_answers) :
           Fresh(k) =>
               IF ParsedReply(i + k)
               THEN ProviderDerived(batch_answers[k].ans, questions[i + k],
                                    Contents[last_reply[i + k].content])
               ELSE /\ IsFallback(batch_answers[k].ans)
                    /\ batch_answers[k].ans.question_id = questions[i + k].id

\* gather has returned a batch in which one call failed while the call of
\* a sibling returned JSON
SiblingsOfAFailure ==
    /\ pc = "collect"
    /\ j = 0
    /\ \E k \in 1..Len(batch_answers) : Fresh(k) /\ ProviderFailed(i + k)
    /\ \E k \in 1..Len(batch_answers) :
           Fresh(k) /\ last_reply[i + k] = Reply("ok", 1)

\* C4: when neither credential is configured no provider call is ever made,
\* every Answer of process_poll_questions has the reasoning "Fallback answer
\* due to API failure", and get_stats reports total_requests = 0 and
\* total_cost = 0.
DegradedModeCallsNoProvider ==
    (~openai_client /\ ~anthropic_client) =>
        /\ provider_calls = NoCalls
        /\ \A p \in Positions : last_reply[p].call \in {"not called", "no client"}
        /\ \A p \in 1..Len(answers) : answers[p].reasoning = FallbackReasoning
        /\ get_stats.total_requests = 0
        /\ get_stats.total_cost = 0

\* an invocation without a client has returned more than one batch
DegradedRunReturned ==
    /\ ~openai_client
    /\ ~anthropic_client
    /\ pc = "done"
    /\ Len(answers) >= batch_size + 1
    /\ \A p \in Positions : last_reply[p].call = "no client"

\* the calls of both clients
Total(calls) == calls.openai + calls.anthropic

\* C5: total_requests is the number of provider calls that succeeded since
\* the counters were set to 0 (at construction, by reset_stats): it grows
\* by one with each successful call, together with total_cost growing by
\* the constant of the provider called, and it does not grow in any other
\* step (a failed call, a generation without a client); the one step that
\* lowers a counter sets both to 0.
RequestsCountSuccessfulCalls ==
    /\ [](get_stats.total_requests = Total(succeeded))
    /\ [][IF request_count' < request_count \/ total_cost' < total_cost
          THEN request_count' = 0 /\ total_cost' = 0
          ELSE /\ request_count' - request_count =
                      Total(succeeded') - Total(succeeded)
               /\ request_count' - request_count \in {0, 1}
               /\ request_count' # request_count =>
                      total_cost' - total_cost =
                          PerCallCost(SelectProvider(openai_client,
                                                     anthropic_client))]_vars

\* of two calls one was counted, and the one that failed was not
CountedAndUncountedCalls ==
    /\ request_count = 1
    /\ Total(provider_calls) = 2
    /\ \E p \in Positions : ProviderFailed(p)
    /\ \E p \in Positions : last_reply[p].call = "ok"

\* C6: no increment of the shared counters is lost, whatever the
\* interleaving of the generations of a batch: when gather has returned a
\* batch in which k provider calls succeeded, request_count has grown by
\* exactly k and total_cost by exactly k times the per-call constant.
CountersGrowBySuccesses ==
    pc = "collect" =>
        /\ request_count - batch_mark.count =
               Total(succeeded) - Total(batch_mark.succeeded)
        /\ total_cost - batch_mark.cost =
               (succeeded.openai - batch_mark.succeeded.openai)
                       * PerCallCost("openai")
                   + (succeeded.anthropic - batch_mark.succeeded.anthropic)
                         * PerCallCost("anthropic")

\* C7: batches run strictly one after the other: at most batch_size
\* generations are in flight, all of one batch, and no generation for a
\* question starts before every question of the earlier batches has its
\* Answer humanized and appended to the result.
BatchesRunSequentially ==
    /\ Cardinality({k \in 1..Len(tasks) : InFlight(k)}) <= batch_size
    /\ \A k, m \in 1..Len(tasks) :
           InFlight(k) /\ InFlight(m) => BatchOf(i + k) = BatchOf(i + m)
    /\ \A p \in Positions :
           Started(p) =>
               \A e \in 1..(batch_size * BatchOf(p)) :
                   /\ e <= Len(answers)
                   /\ answers[e].question_id = questions[e].id
                   /\ answers[e].humanized = 1

\* the generation of the second batch is in flight, waiting to be run
\* again, with a client that was set after the first batch
SecondBatchInFlight ==
    /\ i = batch_size
    /\ Len(answers) = batch_size
    /\ Len(tasks) >= 1
    /\ \A k \in 1..Len(tasks) : InFlight(k)
    /\ \E k \in 1..Len(tasks) : tasks[k].state = "backoff"
    /\ openai_client

\* C8 as stated: for N questions process_poll_questions performs exactly
\* ceil(N / 3) - 1 inter-batch pauses.
PausesAreBatchesMinusOne ==
    pc = "done" => pauses = CeilDiv(N, batch_size) - 1

\* C8: for N >= 1 questions there are exactly ceil(N / 3) - 1 pauses, one
\* after every batch except the last and none after the last; for N = 0
\* there is no batch and no pause.
PausesBetweenBatches ==
    /\ pc = "done" =>
           pauses = IF N = 0 THEN 0 ELSE CeilDiv(N, batch_size) - 1
    /\ pc = "sleep" => i + batch_size < N
    /\ pc \in {"gather", "collect", "raised"} => pauses = i \div batch_size
    /\ pc = "sleep" => pauses = i \div batch_size + 1

\* two batches were returned with one pause
OnePauseForTwoBatches ==
    /\ pc = "done"
    /\ N = batch_size + 1
    /\ pauses = 1

\* C9: every Answer of process_poll_questions, from the provider, from the
\* fallback of the parser or from the fallback of the orchestrator, went
\* through make_answer_human_like exactly once.
HumanizedExactlyOnce ==
    /\ \A p \in 1..Len(answers) : answers[p].humanized = 1
    /\ \A k \in 1..Len(batch_answers) : Fresh(k) => batch_answers[k].ans.humanized = 0

\* a batch is collected that held an exception, after the answer the
\* parser made of the JSON of the provider
FallbackCollectedAfterProviderAnswer ==
    /\ pc = "collect"
    /\ j = Len(batch_answers)
    /\ batch_answers[j].kind = "exception"
    /\ Len(answers) = i + j
    /\ \E p \in 1..(Len(answers) - 1) : last_reply[p] = Reply("ok", 1)

\* C10: with both credentials configured every provider call goes to the
\* primary (OpenAI) client, also after a failed primary call; the secondary
\* (Anthropic) client is called only when the primary is not configured,
\* and no client is called that is not configured.
PrimaryProviderPreferred ==
    [][/\ (openai_client /\ anthropic_client
              /\ provider_calls' # provider_calls) =>
              provider_calls' = [provider_calls EXCEPT !.openai = @ + 1]
       /\ provider_calls'.anthropic # provider_calls.anthropic =>
              anthropic_client /\ ~openai_client
       /\ provider_calls'.openai # provider_calls.openai =>
              openai_client]_vars

\* both clients are configured, a primary call failed and the primary was
\* called again
PrimaryCalledAfterFailure ==
    /\ openai_client
    /\ anthropic_client
    /\ provider_calls.openai >= 2
    /\ \E p \in Positions :
           /\ ProviderFailed(p)
           /\ \E e \in Positions : e > p /\ last_reply[e].call \in CallOutcomes

\* make_answer_human_like has returned for an input confidence in [lo, hi]
Humanized(lo, hi) ==
    /\ pc = "returned"
    /\ arg.kind = "make_answer_human_like"
    /\ arg.answer.confidence \in lo..hi

\* C11: for an Answer whose confidence is in [0, 1] before the humanizer,
\* the confidence after make_answer_human_like is in [0.2, 1.0].
HumanizedConfidenceInRange ==
    Humanized(0, 100) => ret.confidence \in MinConfidence..100

\* the humanizer has returned the floor for an input of 0.5, having drawn
\* the largest reduction
FloorReachedFromInside ==
    /\ Humanized(50, 50)
    /\ ret.confidence = MinConfidence

\* C12 as stated: for every Answer with input confidence in [0, 1] the
\* confidence after make_answer_human_like is at most the one before it.
HumanizerNeverIncreases ==
    Humanized(0, 100) => ret.confidence <= arg.answer.confidence

\* C12: for an input confidence in [0.2, 1] the confidence after
\* make_answer_human_like is at most the one before it; an input confidence
\* in [0, 0.2) is raised to the floor 0.2.
HumanizerNeverIncreasesAboveFloor ==
    /\ Humanized(MinConfidence, 100) =>
           /\ ret.confidence <= arg.answer.confidence
           /\ ret.confidence >= arg.answer.confidence - Greatest(Reductions)
    /\ Humanized(0, MinConfidence - 1) => ret.confidence = MinConfidence

\* the humanizer has lowered a confidence of 0.9 by the smallest reduction
LoweredByTheSmallestReduction ==
    /\ Humanized(90, 90)
    /\ ret.confidence = 80

\* _parse_llm_response has returned or raised
Parsed ==
    /\ pc = "returned"
    /\ arg.kind = "_parse_llm_response"

\* the response holds a {...} span
SpanFound == HasJsonSpan(arg.response)

\* what json.loads makes of the span of the response
Decoded == ContentOf(arg.response).loads

\* the Answer is what free-text extraction gives: confidence 0.7 and the
\* reasoning "Parsed from text response"
FromText(a) == a.confidence = TextConfidence /\ a.reasoning = TextReasoning

\* C14: when the response holds a {...} span that is not JSON, the parser
\* falls back to free-text extraction: the Answer has confidence 0.7 and
\* the reasoning "Parsed from text response", as for a response without
\* braces, and is not the fallback Answer.
BadJsonFallsBackToText ==
    (Parsed /\ SpanFound /\ Decoded.exc /\ ValidQuestion(arg.question)) =>
        /\ ~ret.exc
        /\ FromText(ret.ans)
        /\ ~IsFallback(ret.ans)

\* the objects with an answer, a numeric confidence and a reasoning, each
\* with its text in a layout
RoundTrips ==
    { [text |-> JsonTextOf(obj, Layouts[l]), obj |-> obj] :
          obj \in { o \in FullObjects :
                        o.val.confidence.type \in {"int", "float"} },
          l \in DOMAIN Layouts }

\* C15: for a response that is exactly the JSON text of an object with
\* answer X, numeric confidence C and reasoning R, _parse_llm_response
\* returns the Answer with value X, confidence C, reasoning R and the id of
\* the question: neither free-text extraction nor the fallback is used.
ParserRoundTrip ==
    \A rt \in RoundTrips :
        (Parsed /\ arg.response = rt.text) =>
            ret = Returned(Answer(arg.question.id, rt.obj.val.answer,
                                  float(rt.obj.val.confidence).val,
                                  rt.obj.val.reasoning))

\* an object with confidence 0.1, written as the system prompt lays it out,
\* was parsed for a question on which the extraction and the fallback can
\* raise
RoundTripOnAnyQuestion ==
    /\ Parsed
    /\ \E rt \in RoundTrips :
           /\ arg.response = rt.text
           /\ arg.response = JsonTextOf(rt.obj, Layouts.prompt)
    /\ ~ValidQuestion(arg.question)
    /\ ~ret.exc
    /\ ret.ans.confidence = 10
    /\ ret.ans.reasoning = PyStr(<<"o", "k">>)

\* the value of the confidence key cannot be read as a number: float() raises
InvalidConfidence(data) ==
    /\ Keys.confidence \in DOMAIN data.dict
    /\ float(data.dict[Keys.confidence]).exc

\* C16: when the response is a JSON object whose confidence key is absent or
\* holds a value that is no number, the Answer keeps the answer of the
\* object and has confidence 0.7; when reasoning is absent it is "".
MissingOrInvalidConfidenceDefaults ==
    (/\ Parsed
     /\ SpanFound
     /\ ~Decoded.exc
     /\ \/ Keys.confidence \notin DOMAIN Decoded.data.dict
        \/ InvalidConfidence(Decoded.data)) =>
        /\ ~ret.exc
        /\ ret.ans.value.py = DictGet(Decoded.data, Keys.answer, PyStr(<<>>))
        /\ ret.ans.confidence = TextConfidence
        /\ Keys.reasoning \notin DOMAIN Decoded.data.dict =>
               ret.ans.reasoning = PyStr(<<>>)

\* C13: every Answer process_poll_questions hands to the caller has a
\* confidence in [0, 1], whatever the provider replied, also when the JSON
\* of the reply holds a confidence outside [0, 1].
ReturnedConfidenceInUnitRange ==
    \A p \in 1..Len(answers) : answers[p].confidence \in 0..100

\* C17: when a question of the input lacks id, text or type,
\* answer_questions_endpoint returns a result that holds an error with an
\* empty answers list and empty stats, never a partial list of answers, and
\* no provider is called for any question of the input.
DefectiveInputIsRejectedWhole ==
    (\E p \in 1..Len(questions_data) : Defective(questions_data[p])) =>
        /\ pc \in {"endpoint", "responded"}
        /\ provider_calls = NoCalls
        /\ \A p \in 1..Len(last_reply) : last_reply[p] = NotCalled
        /\ answers = <<>>
        /\ pc = "responded" =>
               /\ "error" \in endpoint_result.keys
               /\ endpoint_result.answers = <<>>
               /\ endpoint_result.stats = <<>>

\* the endpoint has answered an input whose last question lacks a key, with
\* a client configured
DefectAfterGoodQuestions ==
    /\ pc = "responded"
    /\ openai_client
    /\ Len(questions_data) >= 2
    /\ Defective(questions_data[Len(questions_data)])
    /\ \A p \in 1..(Len(questions_data) - 1) : ~Defective(questions_data[p])
    /\ endpoint_result = ErrorResult

\* C18: every invocation of process_poll_questions on a finite list comes
\* to its end, provided every provider call returns or fails: no
\* generation makes more than MaxAttempts attempts, and the invocation
\* eventually returns, so that no backoff and no pause lasts for ever (with
\* a question whose option is no dictionary it may end by raising instead).
InvocationTerminates ==
    /\ [](\A k \in 1..Len(tasks) : tasks[k].attempt <= MaxAttempts)
    /\ <>(IF AllValid THEN pc = "done" ELSE pc \in {"done", "raised"})

\* an invocation has returned after a pause and after a generation that
\* was retried until the decorator gave up
ReturnedAfterRetriesAndPauses ==
    /\ pc = "done"
    /\ pauses >= 1
    /\ \E k \in 1..Len(tasks) : tasks[k].attempt = MaxAttempts

\* a call of _extract_answer_from_text has returned
Extracted == arg.kind = "_extract_answer_from_text" /\ pc = "returned"

\* the word w occurs in text as a token: between two word boundaries
HasToken(text, w) ==
    \E p \in 1..(Len(text) - Len(w) + 1) :
        /\ SubSeq(text, p, p + Len(w) - 1) = w
        /\ Boundary(text, p - 1)
        /\ Boundary(text, p + Len(w) - 1)

HasAffirmative(text) == \E w \in Affirmative : HasToken(Lower(text), w)
HasNegative(text) == \E w \in Negative : HasToken(Lower(text), w)

\* C19: free-text extraction for a yes-no question yields "yes" when the
\* response holds an affirmative token (yes, true, agree, correct), and "no"
\* when it holds a negative token (no, false, disagree, incorrect) and no
\* affirmative one, as for a response whose only such word is "disagree" or
\* "incorrect"; without a token of either kind it yields one of the two.
YesNoExtractedByToken ==
    (Extracted /\ arg.question.type = "yes-no") =>
        /\ ~ret.exc
        /\ ret.body \in {YesNo[1], YesNo[2]}
        /\ HasAffirmative(arg.response) => ret.body = YesNo[1]
        /\ (HasNegative(arg.response) /\ ~HasAffirmative(arg.response)) =>
               ret.body = YesNo[2]

\* option k of q is named by the response: its label or its value occurs
\* in it, case-insensitively
Named(q, response, k) ==
    \/ /\ "label" \in q.options[k].keys
       /\ Contains(Lower(response), Lower(q.options[k].label))
    \/ /\ "value" \in q.options[k].keys
       /\ Contains(Lower(response), Lower(q.options[k].value))

\* what extraction returns for option k: its value (its label when it holds
\* no value)
ValueOf(q, k) == Get(q.options[k], "value", Get(q.options[k], "label", <<>>))

\* C20: free-text extraction for a single-choice or multiple-choice
\* question returns the value of the first option, in option order, whose
\* label or whose value occurs case-insensitively in the response; it returns
\* a random option only when no label and no value occurs.
ChoiceExtractedByLabelOrValue ==
    (Extracted /\ IsChoice(arg.question) /\ ValidQuestion(arg.question)) =>
        /\ ~ret.exc
        /\ \A k \in 1..Len(arg.question.options) :
               (/\ Named(arg.question, arg.response, k)
                /\ \A m \in 1..(k - 1) : ~Named(arg.question, arg.response, m))
                   => ret.body = ValueOf(arg.question, k)

\* C21: an Answer of the Fallback Synthesizer (confidence 0.3) that is
\* humanized once has confidence exactly 0.2, whatever reduction in
\* [0.1, 0.3] is drawn; the Answers of process_poll_questions that carry
\* the fallback reasoning, and in degraded mode all its Answers, have
\* confidence 0.2.
FallbackHumanizedToFloor ==
    /\ (pc = "returned" /\ arg.kind = "_generate_fallback_answer") =>
           /\ ret.humanized = 1
           /\ ret.confidence = MinConfidence
    /\ \A p \in 1..Len(answers) :
           answers[p].reasoning = FallbackReasoning =>
               answers[p].confidence = MinConfidence
    /\ (~openai_client /\ ~anthropic_client) =>
           \A p \in 1..Len(answers) : answers[p].confidence = MinConfidence

\* a fallback answer of confidence 0.3 was humanized with the smallest
\* reduction, 0.1
FallbackHumanizedBySmallestReduction ==
    /\ pc = "returned"
    /\ arg.kind = "_generate_fallback_answer"
    /\ arg.reduce = Least(Reductions)
    /\ ret.reasoning = FallbackReasoning
    /\ ret.confidence = FallbackConfidence - Least(Reductions)

\* C22: whenever no generation is in progress, the counters of a service
\* with one provider agree: total_cost is request_count times the constant
\* of that provider, also after a call whose completion request returned an
\* envelope without readable content.
SingleProviderCountersAgree ==
    (/\ openai_client # anthropic_client
     /\ \A k \in 1..Len(tasks) : ~InFlight(k)) =>
        total_cost = request_count
                         * PerCallCost(SelectProvider(openai_client,
                                                      anthropic_client))

====
